---- MODULE Spec2Model ----
(***************************************************************************)
(* Paper-trading bot for 15 minute UP/DOWN markets: the execution gateway  *)
(* (src/src/execution.ts), the v2.1 strategy                               *)
(* (src/src/strategies/ExpirationConvergenceStrategy.ts) and the main tick *)
(* of TradingBot (src/unnamed/part_004).                                   *)
(*                                                                         *)
(* Units.  Prices are integers in 1/1000 dollar (0.68 is 680), share       *)
(* counts in 1/10000 share (the strategy rounds sizes to 4 decimals) and   *)
(* money in price unit x size unit = 1e-7 dollar (20.00 is 200000000).     *)
(* Times are milliseconds.                                                 *)
(*                                                                         *)
(* Interleaving.  Node runs one callback at a time; a handler gives up the *)
(* processor only at an await whose promise is settled by I/O (an order    *)
(* book or market request, a file write).  An await on a paper-mode        *)
(* gateway call resumes from the microtask queue, which is drained before  *)
(* any timer or I/O callback runs, so it is no interleaving point.  Every  *)
(* action below is one such run-to-next-I/O-await segment.                 *)
(***************************************************************************)
EXTENDS Integers, Sequences, FiniteSets, TLC

(***************************************************************************)
(* Program constants (CONFIG defaults, src/unnamed/part_008)               *)
(***************************************************************************)
BANKROLL == 200000000
MIN_ORDER_SIZE == 10000000
TRADE_SIZE_DIVISOR == 10
MIN_ENTRY_PRICE == 650
MAX_ENTRY_PRICE == 850
MAX_ALLOWED_SPREAD == 30
FIXED_PROFIT_TARGET == 20
FIXED_STOP_LOSS == 40
BREAKEVEN_TRIGGER == 15
STABILITY_TICKS_REQUIRED == 15
MIN_COOLDOWN_MS == 15000
MIN_TRADE_INTERVAL_MS == 5000
SESSION_PROFIT_TARGET == 5000000
SESSION_LOSS_LIMIT == 4000000
TREND_LOOKBACK_TICKS == 5
MARKET_ROTATION_THRESHOLD == 30
MAX_HISTORY_LENGTH == 60
DEFAULT_FOK_PRICE == 500

(***************************************************************************)
(* Small helpers                                                           *)
(***************************************************************************)
Min(a, b) == IF a <= b THEN a ELSE b
Max(a, b) == IF a >= b THEN a ELSE b

\* s without its i-th element
RemoveAt(s, i) == SubSeq(s, 1, i - 1) \o SubSeq(s, i + 1, Len(s))

\* the first of the indices in hits, 0 when there is none
FirstIndex(hits) ==
    IF hits = {} THEN 0 ELSE CHOOSE i \in hits : \A j \in hits : i <= j

(***************************************************************************)
(* EXECUTION GATEWAY, paper mode.  A gateway value g is the record of the  *)
(* private fields of ExecutionGateway; Maps are sequences in insertion     *)
(* order.  g.fills is a history variable: the log of the fills the gateway *)
(* made (side, fill price, size), which the program does not keep.         *)
(***************************************************************************)
PaperId(n) == [kind |-> "PAPER", n |-> n]
FokId(n) == [kind |-> "PAPER_FOK", n |-> n]

PosIndex(g, tokenId) ==
    FirstIndex({i \in 1..Len(g.positions) : g.positions[i].tokenId = tokenId})

Fill(side, price, size) == [side |-> side, price |-> price, size |-> size]

\* the log is kept only where g.logFills asks for it
LogFill(g, fill) == IF g.logFills THEN Append(g.fills, fill) ELSE g.fills

\* the BUY branch of executePaperFAK and of checkPaperFills: create the
\* position or add to it at the share-weighted mean entry price
AddShares(g, tokenId, price, size) ==
    LET i == PosIndex(g, tokenId) IN
    IF i > 0
    THEN LET existing == g.positions[i]
             totalShares == existing.shares + size
             avgPrice == ((existing.entryPrice * existing.shares) + (price * size))
                         \div totalShares
         IN [g.positions EXCEPT ![i] = [tokenId |-> tokenId, shares |-> totalShares,
                                        entryPrice |-> avgPrice]]
    ELSE Append(g.positions, [tokenId |-> tokenId, shares |-> size, entryPrice |-> price])

\* a variant of executePaperFAK whose SELL credits the position's entry
\* price instead of the fill price
ExecutePaperFAKMutCash(g, tokenId, side, price, size) ==
    IF side = "BUY"
    THEN IF g.cash >= price * size
         THEN [g |-> [g EXCEPT !.cash = @ - price * size,
                               !.positions = AddShares(g, tokenId, price, size),
                               !.fills = LogFill(g, Fill("BUY", price, size))],
               ok |-> TRUE]
         ELSE [g |-> g, ok |-> FALSE]
    ELSE LET i == PosIndex(g, tokenId) IN
         IF i > 0 /\ g.positions[i].shares >= size
         THEN [g |-> [g EXCEPT !.cash = @ + g.positions[i].entryPrice * size,
                               !.positions = IF g.positions[i].shares - size < 1
                                             THEN RemoveAt(@, i)
                                             ELSE [@ EXCEPT ![i].shares = @ - size],
                               !.fills = LogFill(g, Fill("SELL", price, size))],
               ok |-> TRUE]
         ELSE [g |-> g, ok |-> FALSE]

\* executePaperFAK: immediate fill against the caller's price
ExecutePaperFAK(g, tokenId, side, price, size) ==
    IF side = "BUY"
    THEN IF g.cash >= price * size
         THEN [g |-> [g EXCEPT !.cash = @ - price * size,
                               !.positions = AddShares(g, tokenId, price, size),
                               !.fills = LogFill(g, Fill("BUY", price, size))],
               ok |-> TRUE]
         ELSE [g |-> g, ok |-> FALSE]
    ELSE LET i == PosIndex(g, tokenId) IN
         IF i > 0 /\ g.positions[i].shares >= size
         THEN [g |-> [g EXCEPT !.cash = @ + price * size,
                               !.positions = IF g.positions[i].shares - size < 1
                                             THEN RemoveAt(@, i)
                                             ELSE [@ EXCEPT ![i].shares = @ - size],
                               !.fills = LogFill(g, Fill("SELL", price, size))],
               ok |-> TRUE]
         ELSE [g |-> g, ok |-> FALSE]

\* a variant of placeFOKOrder that draws the order id before it tries to
\* execute, so that a refused order still consumes an id
PlaceFOKOrderMutCounter(g, tokenId, side, amount, price) ==
    IF g.isExecutingTrade
    THEN [g |-> g, ok |-> FALSE, id |-> FokId(0)]
    ELSE LET p == IF price = 0 THEN DEFAULT_FOK_PRICE ELSE price
             size == IF side = "BUY" THEN amount \div p ELSE amount
             r == ExecutePaperFAK(g, tokenId, side, p, size)
         IN IF r.ok
            THEN [g |-> [r.g EXCEPT !.counter = @ + 1,
                                    !.filled = @ \cup {FokId(g.counter)}],
                  ok |-> TRUE, id |-> FokId(g.counter)]
            ELSE [g |-> [g EXCEPT !.counter = @ + 1], ok |-> FALSE, id |-> FokId(0)]

\* a variant of placeFOKOrder that also enters the executed order into
\* paperOrders, where checkPaperFills finds it again
PlaceFOKOrderMutResting(g, tokenId, side, amount, price) ==
    IF g.isExecutingTrade
    THEN [g |-> g, ok |-> FALSE, id |-> FokId(0)]
    ELSE LET p == IF price = 0 THEN DEFAULT_FOK_PRICE ELSE price
             size == IF side = "BUY" THEN amount \div p ELSE amount
             r == ExecutePaperFAK(g, tokenId, side, p, size)
         IN IF r.ok
            THEN [g |-> [r.g EXCEPT !.counter = @ + 1,
                                    !.filled = @ \cup {FokId(g.counter)},
                                    !.orders = Append(@, [id |-> FokId(g.counter),
                                                          tokenId |-> tokenId,
                                                          side |-> side, price |-> p,
                                                          size |-> size])],
                  ok |-> TRUE, id |-> FokId(g.counter)]
            ELSE [g |-> g, ok |-> FALSE, id |-> FokId(0)]

\* placeFOKOrder: amount is dollars for a BUY and shares for a SELL; a
\* missing or zero price is taken as 0.5.  The id is drawn only on success
\* and goes to filledPaperOrders, never to paperOrders.  isExecutingTrade
\* is set and cleared inside the call.
PlaceFOKOrder(g, tokenId, side, amount, price) ==
    IF g.isExecutingTrade
    THEN [g |-> g, ok |-> FALSE, id |-> FokId(0)]
    ELSE LET p == IF price = 0 THEN DEFAULT_FOK_PRICE ELSE price
             size == IF side = "BUY" THEN amount \div p ELSE amount
             r == ExecutePaperFAK(g, tokenId, side, p, size)
         IN IF r.ok
            THEN [g |-> [r.g EXCEPT !.counter = @ + 1,
                                    !.filled = @ \cup {FokId(g.counter)}],
                  ok |-> TRUE, id |-> FokId(g.counter)]
            ELSE [g |-> g, ok |-> FALSE, id |-> FokId(0)]

\* placePaperOrder: a resting order, appended to paperOrders
PlacePaperOrder(g, tokenId, side, price, size) ==
    [g |-> [g EXCEPT !.counter = @ + 1,
                     !.orders = Append(@, [id |-> PaperId(g.counter), tokenId |-> tokenId,
                                           side |-> side, price |-> price, size |-> size])],
     id |-> PaperId(g.counter)]

OrderIndex(g, orderId) == FirstIndex({i \in 1..Len(g.orders) : g.orders[i].id = orderId})

\* cancelPaperOrder
CancelPaperOrder(g, orderId) ==
    LET i == OrderIndex(g, orderId) IN
    IF i > 0 THEN [g |-> [g EXCEPT !.orders = RemoveAt(@, i)], ok |-> TRUE]
    ELSE [g |-> g, ok |-> FALSE]

\* a variant of the SELL branch of checkPaperFills that deletes the position
\* only when it holds fewer shares than the order sells
SellRestingMutKeep(g, tokenId, fillPrice, size) ==
    LET i == PosIndex(g, tokenId)
        g1 == [g EXCEPT !.cash = @ + fillPrice * size,
                        !.fills = LogFill(g, Fill("SELL", fillPrice, size))]
    IN IF i = 0 THEN g1
       ELSE IF g.positions[i].shares < size
            THEN [g1 EXCEPT !.positions = RemoveAt(@, i)]
            ELSE [g1 EXCEPT !.positions[i].shares = @ - size]

\* the SELL branch of checkPaperFills: cash is credited whether or not a
\* position exists; an existing position is reduced or deleted
SellResting(g, tokenId, fillPrice, size) ==
    LET i == PosIndex(g, tokenId)
        g1 == [g EXCEPT !.cash = @ + fillPrice * size,
                        !.fills = LogFill(g, Fill("SELL", fillPrice, size))]
    IN IF i = 0 THEN g1
       ELSE IF g.positions[i].shares <= size
            THEN [g1 EXCEPT !.positions = RemoveAt(@, i)]
            ELSE [g1 EXCEPT !.positions[i].shares = @ - size]

\* the BUY branch of checkPaperFills: no cash check
BuyResting(g, tokenId, fillPrice, size) ==
    [g EXCEPT !.cash = @ - fillPrice * size,
              !.positions = AddShares(g, tokenId, fillPrice, size),
              !.fills = LogFill(g, Fill("BUY", fillPrice, size))]

\* checkPaperFills: walk paperOrders in insertion order from index i; purge
\* an order already in the filled set; fill the first order that crosses
\* and return
RECURSIVE CheckPaperFillsFrom(_, _, _, _, _)
CheckPaperFillsFrom(g, i, tokenId, currentBestAsk, currentBestBid) ==
    IF i > Len(g.orders) THEN g
    ELSE LET order == g.orders[i] IN
         IF order.tokenId # tokenId
         THEN CheckPaperFillsFrom(g, i + 1, tokenId, currentBestAsk, currentBestBid)
         ELSE IF order.id \in g.filled
         THEN CheckPaperFillsFrom([g EXCEPT !.orders = RemoveAt(@, i)], i, tokenId,
                                  currentBestAsk, currentBestBid)
         ELSE IF order.side = "BUY" /\ currentBestAsk > 0 /\ currentBestAsk <= order.price
         THEN [BuyResting(g, tokenId, Min(currentBestAsk, order.price), order.size)
                 EXCEPT !.filled = @ \cup {order.id}, !.orders = RemoveAt(@, i)]
         ELSE IF order.side = "SELL" /\ currentBestBid > 0 /\ currentBestBid >= order.price
         THEN [SellResting(g, tokenId, Max(currentBestBid, order.price), order.size)
                 EXCEPT !.filled = @ \cup {order.id}, !.orders = RemoveAt(@, i)]
         ELSE CheckPaperFillsFrom(g, i + 1, tokenId, currentBestAsk, currentBestBid)

CheckPaperFills(g, tokenId, currentBestAsk, currentBestBid) ==
    CheckPaperFillsFrom(g, 1, tokenId, currentBestAsk, currentBestBid)

\* clearAllState (paper): orders, positions and the filled set are wiped;
\* cash and the id counter are kept
ClearAllState(g) ==
    [g EXCEPT !.orders = <<>>, !.positions = <<>>, !.filled = {},
              !.isExecutingTrade = FALSE]

\* getPaperPosition: the first position of the map, or none
HasPaperPosition(g) == Len(g.positions) > 0
GetPaperPosition(g) == g.positions[1]


(***************************************************************************)
(* STRATEGY (ExpirationConvergenceStrategy v2.1).  A strategy value s is   *)
(* the record of the object's private fields.  TradeRecord objects are     *)
(* shared by reference between tradeRecords, activePositions and the local *)
(* lists of handlers in flight, so they live in s.obj (id -> record) and   *)
(* the two Maps are sequences of ids in insertion order.  The contents of  *)
(* the three sample buffers are never read by v2.1 code; the model keeps   *)
(* their lengths, saturated at HistoryDetail.                              *)
(***************************************************************************)
HistoryDetail == 1

NoId == 0 - 1

DefaultCircuitBreaker ==
    [isCoolingDown |-> FALSE, crashLowPrice |-> 0, stabilityCounter |-> 0,
     lastStopLossTime |-> 0, crashTokenId |-> 0, lastTradeTime |-> 0]

DefaultSessionState ==
    [sessionPnL |-> 0, isSessionLocked |-> FALSE, lockReason |-> "null",
     tradesThisSession |-> 0]

DefaultPriceHistory == [upBids |-> 0, downBids |-> 0]

Rec(s, id) == s.obj[id]

\* the records of the ledger, in Map order
Ledger(s) == [i \in 1..Len(s.tradeRecords) |-> s.obj[s.tradeRecords[i]]]

InSeq(x, q) == \E i \in 1..Len(q) : q[i] = x

SeqDelete(q, x) == SelectSeq(q, LAMBDA y : y # x)

\* Map.set: a new key goes to the end, an existing key keeps its place
SeqSet(q, x) == IF InSeq(x, q) THEN q ELSE Append(q, x)

\* isInKillZone: TRUE when neither token's price (ask, else bid) is in the
\* safe zone
InSafeZone(p) == p >= MIN_ENTRY_PRICE /\ p <= MAX_ENTRY_PRICE

IsInKillZone(upAsk, upBid, downAsk, downBid) ==
    LET upPrice == IF upAsk > 0 THEN upAsk ELSE upBid
        downPrice == IF downAsk > 0 THEN downAsk ELSE downBid
    IN ~InSafeZone(upPrice) /\ ~InSafeZone(downPrice)

\* a variant of updateSessionPnL without the loss-limit check
UpdateSessionPnLMutNoLossLimit(s, pnlChange) ==
    LET pnl == s.sessionState.sessionPnL + pnlChange
        s1 == [s EXCEPT !.sessionState.sessionPnL = pnl,
                        !.sessionState.tradesThisSession = @ + 1]
    IN IF pnl >= SESSION_PROFIT_TARGET
       THEN [s1 EXCEPT !.sessionState.isSessionLocked = TRUE,
                       !.sessionState.lockReason = "PROFIT_TARGET"]
       ELSE s1

\* updateSessionPnL
UpdateSessionPnL(s, pnlChange) ==
    LET pnl == s.sessionState.sessionPnL + pnlChange
        s1 == [s EXCEPT !.sessionState.sessionPnL = pnl,
                        !.sessionState.tradesThisSession = @ + 1]
        s2 == IF pnl >= SESSION_PROFIT_TARGET
              THEN [s1 EXCEPT !.sessionState.isSessionLocked = TRUE,
                              !.sessionState.lockReason = "PROFIT_TARGET"]
              ELSE s1
    IN IF pnl <= 0 - SESSION_LOSS_LIMIT
       THEN [s2 EXCEPT !.sessionState.isSessionLocked = TRUE,
                       !.sessionState.lockReason = "LOSS_LIMIT"]
       ELSE s2

\* updatePriceHistory: a bid > 0 is pushed, the oldest sample dropped past
\* maxSize
PushLen(len, cap) == Min(len + 1, Min(cap, HistoryDetail))

UpdatePriceHistory(s, upBid, downBid) ==
    [s EXCEPT !.priceHistory.upBids =
                  IF upBid > 0 THEN PushLen(@, TREND_LOOKBACK_TICKS) ELSE @,
              !.priceHistory.downBids =
                  IF downBid > 0 THEN PushLen(@, TREND_LOOKBACK_TICKS) ELSE @]

\* QuantEngine.updatePrice
QuantUpdatePrice(s) ==
    [s EXCEPT !.quantHistory = PushLen(@, MAX_HISTORY_LENGTH)]

\* checkCircuitBreaker.  s.aboveRun is a history variable: the number of
\* most recent consecutive observations with the bid above the crash low.
CheckCircuitBreaker(s, now, currentBid) ==
    LET cb == s.circuitBreaker
        run == IF currentBid > cb.crashLowPrice THEN s.aboveRun + 1 ELSE 0
        s0 == [s EXCEPT !.aboveRun = run]
    IN
    IF ~cb.isCoolingDown THEN s
    ELSE IF now - cb.lastStopLossTime < MIN_COOLDOWN_MS
    THEN IF currentBid < cb.crashLowPrice /\ currentBid > 0
         THEN [s0 EXCEPT !.circuitBreaker.crashLowPrice = currentBid,
                         !.circuitBreaker.stabilityCounter = 0]
         ELSE IF currentBid > cb.crashLowPrice
         THEN [s0 EXCEPT !.circuitBreaker.stabilityCounter = @ + 1]
         ELSE s0
    ELSE IF currentBid < cb.crashLowPrice /\ currentBid > 0
    THEN [s0 EXCEPT !.circuitBreaker.crashLowPrice = currentBid,
                    !.circuitBreaker.stabilityCounter = 0]
    ELSE LET counter == IF currentBid > cb.crashLowPrice
                        THEN cb.stabilityCounter + 1 ELSE cb.stabilityCounter
         IN IF counter >= STABILITY_TICKS_REQUIRED
            THEN [s0 EXCEPT !.circuitBreaker.isCoolingDown = FALSE,
                            !.circuitBreaker.stabilityCounter = 0,
                            !.circuitBreaker.crashLowPrice = 0,
                            !.circuitBreaker.crashTokenId = 0]
            ELSE [s0 EXCEPT !.circuitBreaker.stabilityCounter = counter]

\* triggerCircuitBreaker
TriggerCircuitBreaker(s, now, tokenId, crashPrice) ==
    [s EXCEPT !.circuitBreaker.isCoolingDown = TRUE,
              !.circuitBreaker.crashLowPrice = crashPrice,
              !.circuitBreaker.stabilityCounter = 0,
              !.circuitBreaker.lastStopLossTime = now,
              !.circuitBreaker.crashTokenId = tokenId,
              !.aboveRun = 0]

\* hasPendingTrades.  Its last test, availableCash < availableCash *
\* TRADE_SIZE_PCT with TRADE_SIZE_PCT in (0, 1), is true exactly of a
\* negative balance.
HasFilledSell(s, buyId) ==
    \E i \in 1..Len(s.tradeRecords) :
        Rec(s, s.tradeRecords[i]).pairedWith = buyId
        /\ Rec(s, s.tradeRecords[i]).status = "FILLED"

HasPendingSell(s, buyId) ==
    \E i \in 1..Len(s.tradeRecords) :
        Rec(s, s.tradeRecords[i]).pairedWith = buyId
        /\ Rec(s, s.tradeRecords[i]).status = "PENDING"

HasPendingTrades(s, g) ==
    \/ s.isTradingLocked
    \/ \E i \in 1..Len(s.tradeRecords) :
          LET buy == Rec(s, s.tradeRecords[i]) IN
          /\ buy.side = "BUY" /\ buy.status = "FILLED"
          /\ ~HasFilledSell(s, buy.id)
          /\ (HasPendingSell(s, buy.id) \/ InSeq(buy.id, s.activePositions))
    \/ Len(s.activePositions) > 0
    \/ g.cash < 0


\* shouldEnterTrade(spot, strike, timeRemainingSeconds, currentPrices):
\* spotAbove is spot - strike > 0, prices.ok = FALSE is a missing
\* currentPrices.  Returns the strategy (the buffers are written on the way)
\* and the decision.
Reject(s) == [s |-> s, shouldTrade |-> FALSE, direction |-> "null"]

PriceGateRejects(currentAsk) ==
    \/ currentAsk > 0 /\ currentAsk < MIN_ENTRY_PRICE
    \/ currentAsk > 0 /\ currentAsk > MAX_ENTRY_PRICE

ShouldEnterTrade(s, g, now, spotAbove, timeRemainingSeconds, prices) ==
    IF s.sessionState.isSessionLocked THEN Reject(s)
    ELSE
    LET direction == IF spotAbove THEN "UP" ELSE "DOWN"
        currentAsk == IF direction = "UP" THEN prices.upAsk ELSE prices.downAsk
        s1 == IF prices.ok THEN UpdatePriceHistory(s, prices.upBid, prices.downBid) ELSE s
        s2 == QuantUpdatePrice(s1)
        cb == s.circuitBreaker
    IN
    IF prices.ok /\ PriceGateRejects(currentAsk) THEN Reject(s1)
    ELSE IF cb.isCoolingDown THEN Reject(s2)
    ELSE IF cb.lastTradeTime > 0 /\ now - cb.lastTradeTime < MIN_TRADE_INTERVAL_MS
    THEN Reject(s2)
    ELSE IF HasPendingTrades(s2, g) THEN Reject(s2)
    ELSE IF timeRemainingSeconds <= 150 * 1000 THEN Reject(s2)
    ELSE [s |-> s2, shouldTrade |-> TRUE, direction |-> direction]

\* A TradeRecord.  Absent optional fields: pairedWith NoId, exitType "null",
\* fixedStopDist 0, breakEvenTriggered FALSE.
TradeRecord(id, side, tokenId, tokenType, price, size, orderId, status, pairedWith, exitType, fixedStopDist) ==
    [id |-> id, side |-> side, tokenId |-> tokenId, tokenType |-> tokenType,
     price |-> price, size |-> size, orderId |-> orderId, status |-> status,
     pairedWith |-> pairedWith, exitType |-> exitType,
     fixedStopDist |-> fixedStopDist, breakEvenTriggered |-> FALSE]

AddRecord(s, r) ==
    [s EXCEPT !.obj = (r.id :> r) @@ @,
              !.tradeRecords = SeqSet(@, r.id)]

\* Math.round(a / p) for positive a, p
RoundDiv(a, p) == (2 * a + p) \div (2 * p)

\* executeTrade up to its await of the order book: the pending-trades and
\* cooldown gates, then the lock
ExecuteTradeBegins(s, g) == ~HasPendingTrades(s, g) /\ ~s.circuitBreaker.isCoolingDown

\* executeTrade from the order book onwards.  book.ok = FALSE is a failed
\* request.  Returns [s, g].
Unlock(s, g) == [s |-> [s EXCEPT !.isTradingLocked = FALSE], g |-> g]

\* a variant of executeTrade whose SELL price is not capped at 0.99
ExecuteTradeMutNoCap(s, g, now, tokenId, tokenType, book) ==
    IF ~book.ok THEN Unlock(s, g)
    ELSE
    LET buyPrice == book.ask
        spread == book.ask - book.bid
        availableCash == g.cash
        pct == availableCash \div TRADE_SIZE_DIVISOR
        tradeAmount == IF pct < MIN_ORDER_SIZE THEN MIN_ORDER_SIZE ELSE pct
    IN
    IF buyPrice <= 0 THEN Unlock(s, g)
    ELSE IF spread > MAX_ALLOWED_SPREAD THEN Unlock(s, g)
    ELSE IF pct < MIN_ORDER_SIZE /\ availableCash < MIN_ORDER_SIZE THEN Unlock(s, g)
    ELSE
    LET roundedBuySize == RoundDiv(tradeAmount, buyPrice)
        finalBuyAmount == buyPrice * roundedBuySize
        fok == PlaceFOKOrder(g, tokenId, "BUY", finalBuyAmount, buyPrice)
    IN
    IF ~fok.ok THEN Unlock(s, g)
    ELSE
    LET buyId == s.orderCounter
        buyRecord == TradeRecord(buyId, "BUY", tokenId, tokenType, buyPrice,
                                 roundedBuySize, fok.id, "FILLED", NoId, "null",
                                 FIXED_STOP_LOSS)
        s1 == [AddRecord(s, buyRecord) EXCEPT
                   !.orderCounter = @ + 1,
                   !.circuitBreaker.lastTradeTime = now,
                   !.activePositions = SeqSet(@, buyId)]
    IN
    IF buyPrice < 990
    THEN LET sellPrice == buyPrice + FIXED_PROFIT_TARGET
             lim == PlacePaperOrder(fok.g, tokenId, "SELL", sellPrice, roundedBuySize)
             sellRecord == TradeRecord(s1.orderCounter, "SELL", tokenId, tokenType,
                                       sellPrice, roundedBuySize, lim.id, "PENDING",
                                       buyId, "LIMIT", 0)
         IN [s |-> [AddRecord(s1, sellRecord) EXCEPT !.orderCounter = @ + 1],
             g |-> lim.g]
    ELSE Unlock(s1, fok.g)

ExecuteTrade(s, g, now, tokenId, tokenType, book) ==
    IF ~book.ok THEN Unlock(s, g)
    ELSE
    LET buyPrice == book.ask
        spread == book.ask - book.bid
        availableCash == g.cash
        pct == availableCash \div TRADE_SIZE_DIVISOR
        tradeAmount == IF pct < MIN_ORDER_SIZE THEN MIN_ORDER_SIZE ELSE pct
    IN
    IF buyPrice <= 0 THEN Unlock(s, g)
    ELSE IF spread > MAX_ALLOWED_SPREAD THEN Unlock(s, g)
    ELSE IF pct < MIN_ORDER_SIZE /\ availableCash < MIN_ORDER_SIZE THEN Unlock(s, g)
    ELSE
    LET roundedBuySize == RoundDiv(tradeAmount, buyPrice)
        finalBuyAmount == buyPrice * roundedBuySize
        fok == PlaceFOKOrder(g, tokenId, "BUY", finalBuyAmount, buyPrice)
    IN
    IF ~fok.ok THEN Unlock(s, g)
    ELSE
    LET buyId == s.orderCounter
        buyRecord == TradeRecord(buyId, "BUY", tokenId, tokenType, buyPrice,
                                 roundedBuySize, fok.id, "FILLED", NoId, "null",
                                 FIXED_STOP_LOSS)
        s1 == [AddRecord(s, buyRecord) EXCEPT
                   !.orderCounter = @ + 1,
                   !.circuitBreaker.lastTradeTime = now,
                   !.activePositions = SeqSet(@, buyId)]
    IN
    IF buyPrice < 990
    THEN LET sellPrice == Min(buyPrice + FIXED_PROFIT_TARGET, 990)
             lim == PlacePaperOrder(fok.g, tokenId, "SELL", sellPrice, roundedBuySize)
             sellRecord == TradeRecord(s1.orderCounter, "SELL", tokenId, tokenType,
                                       sellPrice, roundedBuySize, lim.id, "PENDING",
                                       buyId, "LIMIT", 0)
         IN [s |-> [AddRecord(s1, sellRecord) EXCEPT !.orderCounter = @ + 1],
             g |-> lim.g]
    ELSE Unlock(s1, fok.g)


\* the PENDING SELL record paired with buyId that tradeRecords lists first
\* (NoId when there is none)
PendingSellOf(s, buyId) ==
    LET i == FirstIndex({k \in 1..Len(Ledger(s)) : /\ Ledger(s)[k].pairedWith = buyId
                                                    /\ Ledger(s)[k].side = "SELL"
                                                    /\ Ledger(s)[k].status = "PENDING"})
    IN IF i = 0 THEN NoId ELSE s.tradeRecords[i]

StopLossId(kind, now) == [kind |-> kind, n |-> now]

\* updateOrderStatus, the stop of one position at one observation: the
\* break-even trigger fires when it has not fired before and the bid is
\* BREAKEVEN_TRIGGER above the entry; the stop distance is the record's
\* fixedStopDist when that is truthy, else FIXED_STOP_LOSS, and 0 at the
\* observation that fires the trigger
BreakEvenArms(activePosition, currentBid) ==
    /\ ~activePosition.breakEvenTriggered
    /\ currentBid - activePosition.price >= BREAKEVEN_TRIGGER

StopDistance(activePosition, currentBid) ==
    IF BreakEvenArms(activePosition, currentBid) THEN 0
    ELSE IF activePosition.fixedStopDist # 0 THEN activePosition.fixedStopDist
    ELSE FIXED_STOP_LOSS

StopLossPrice(activePosition, currentBid) ==
    activePosition.price - StopDistance(activePosition, currentBid)

StopTriggers(activePosition, currentBid) ==
    currentBid > 0 /\ currentBid < StopLossPrice(activePosition, currentBid)

\* a variant of the loop body whose stop-loss branch cancels the pending
\* SELL and leaves the loop body before executeFAK is called
ProcessPositionMutCancelOnly(s, g, now, id, timeRemainingSeconds, book) ==
    IF ~book.ok THEN [s |-> s, g |-> g]
    ELSE
    LET activePosition == Rec(s, id)
        currentBid == book.bid
        s1 == IF BreakEvenArms(activePosition, currentBid)
              THEN [s EXCEPT !.obj[id].breakEvenTriggered = TRUE,
                             !.obj[id].fixedStopDist = 0]
              ELSE s
        pendingSell == PendingSellOf(s1, id)
    IN
    IF StopTriggers(activePosition, currentBid)
    THEN IF pendingSell # NoId
         THEN [s |-> [s1 EXCEPT !.obj[pendingSell].status = "CANCELLED"],
               g |-> CancelPaperOrder(g, Rec(s1, pendingSell).orderId).g]
         ELSE [s |-> s1, g |-> g]
    ELSE IF timeRemainingSeconds < 45 * 1000 /\ currentBid > 940 /\ pendingSell # NoId
    THEN [s |-> [s1 EXCEPT !.obj[pendingSell].status = "CANCELLED",
                           !.obj[pendingSell].exitType = "HOLD_TO_MATURITY",
                           !.isTradingLocked = FALSE],
          g |-> CancelPaperOrder(g, Rec(s1, pendingSell).orderId).g]
    ELSE [s |-> s1, g |-> g]

\* a variant of the loop body whose hold-to-maturity branch does not look at
\* the time remaining
ProcessPositionMutHoldAnyTime(s, g, now, id, timeRemainingSeconds, book) ==
    IF ~book.ok THEN [s |-> s, g |-> g]
    ELSE
    LET activePosition == Rec(s, id)
        currentBid == book.bid
        entryPrice == activePosition.price
        breakEvenTriggered == activePosition.breakEvenTriggered
        s1 == IF BreakEvenArms(activePosition, currentBid)
              THEN [s EXCEPT !.obj[id].breakEvenTriggered = TRUE,
                             !.obj[id].fixedStopDist = 0]
              ELSE s
        pendingSell == PendingSellOf(s1, id)
    IN
    IF StopTriggers(activePosition, currentBid)
    THEN LET isBreakeven == breakEvenTriggered /\ currentBid >= entryPrice - 5
             g1 == IF pendingSell # NoId
                   THEN CancelPaperOrder(g, Rec(s1, pendingSell).orderId).g ELSE g
             s2 == IF pendingSell # NoId
                   THEN [s1 EXCEPT !.obj[pendingSell].status = "CANCELLED"] ELSE s1
             exitPrice == Max(10, currentBid - 20)
             exitSize == activePosition.size
             fak == ExecutePaperFAK(g1, activePosition.tokenId, "SELL", exitPrice, exitSize)
             kind == IF isBreakeven THEN "BREAKEVEN" ELSE "STOP_LOSS"
             stopLossRecord == TradeRecord(s2.orderCounter, "SELL", activePosition.tokenId,
                                           activePosition.tokenType, exitPrice, exitSize,
                                           StopLossId(kind, now), "FILLED", id, kind, 0)
             s3 == [AddRecord(s2, stopLossRecord) EXCEPT
                        !.orderCounter = @ + 1,
                        !.activePositions = SeqDelete(@, id)]
             s4 == UpdateSessionPnL(s3, (exitPrice - entryPrice) * exitSize)
             s5 == IF isBreakeven THEN s4
                   ELSE TriggerCircuitBreaker(s4, now, activePosition.tokenId, currentBid)
         IN IF fak.ok THEN Unlock(s5, fak.g) ELSE Unlock(s2, g1)
    ELSE IF currentBid > 940 /\ pendingSell # NoId
    THEN [s |-> [s1 EXCEPT !.obj[pendingSell].status = "CANCELLED",
                           !.obj[pendingSell].exitType = "HOLD_TO_MATURITY",
                           !.isTradingLocked = FALSE],
          g |-> CancelPaperOrder(g, Rec(s1, pendingSell).orderId).g]
    ELSE [s |-> s1, g |-> g]

\* updateOrderStatus, the body of the loop over the snapshot of
\* activePositions for the position object id, resumed with the order book
\* of its token.  book.ok = FALSE is a failed request (caught, next
\* position).  Returns [s, g].
ProcessPosition(s, g, now, id, timeRemainingSeconds, book) ==
    IF ~book.ok THEN [s |-> s, g |-> g]
    ELSE
    LET activePosition == Rec(s, id)
        currentBid == book.bid
        entryPrice == activePosition.price
        breakEvenTriggered == activePosition.breakEvenTriggered
        s1 == IF BreakEvenArms(activePosition, currentBid)
              THEN [s EXCEPT !.obj[id].breakEvenTriggered = TRUE,
                             !.obj[id].fixedStopDist = 0]
              ELSE s
        pendingSell == PendingSellOf(s1, id)
    IN
    IF StopTriggers(activePosition, currentBid)
    THEN LET isBreakeven == breakEvenTriggered /\ currentBid >= entryPrice - 5
             g1 == IF pendingSell # NoId
                   THEN CancelPaperOrder(g, Rec(s1, pendingSell).orderId).g ELSE g
             s2 == IF pendingSell # NoId
                   THEN [s1 EXCEPT !.obj[pendingSell].status = "CANCELLED"] ELSE s1
             exitPrice == Max(10, currentBid - 20)
             exitSize == activePosition.size
             fak == ExecutePaperFAK(g1, activePosition.tokenId, "SELL", exitPrice, exitSize)
             kind == IF isBreakeven THEN "BREAKEVEN" ELSE "STOP_LOSS"
             stopLossRecord == TradeRecord(s2.orderCounter, "SELL", activePosition.tokenId,
                                           activePosition.tokenType, exitPrice, exitSize,
                                           StopLossId(kind, now), "FILLED", id, kind, 0)
             s3 == [AddRecord(s2, stopLossRecord) EXCEPT
                        !.orderCounter = @ + 1,
                        !.activePositions = SeqDelete(@, id)]
             s4 == UpdateSessionPnL(s3, (exitPrice - entryPrice) * exitSize)
             s5 == IF isBreakeven THEN s4
                   ELSE TriggerCircuitBreaker(s4, now, activePosition.tokenId, currentBid)
         IN IF fak.ok THEN Unlock(s5, fak.g) ELSE Unlock(s2, g1)
    ELSE IF timeRemainingSeconds < 45 * 1000 /\ currentBid > 940 /\ pendingSell # NoId
    THEN [s |-> [s1 EXCEPT !.obj[pendingSell].status = "CANCELLED",
                           !.obj[pendingSell].exitType = "HOLD_TO_MATURITY",
                           !.isTradingLocked = FALSE],
          g |-> CancelPaperOrder(g, Rec(s1, pendingSell).orderId).g]
    ELSE [s |-> s1, g |-> g]

\* updateOrderStatus, the closing loop over tradeRecords from index i:
\* a PENDING record whose order id is in filledPaperOrders becomes FILLED
IsOrderFilled(g, orderId) == orderId \in g.filled

RECURSIVE LedgerLoopFrom(_, _, _)
LedgerLoopFrom(s, g, i) ==
    IF i > Len(s.tradeRecords) THEN s
    ELSE
    LET record == Rec(s, s.tradeRecords[i]) IN
    IF record.status = "PENDING" /\ IsOrderFilled(g, record.orderId)
    THEN LET s1 == [s EXCEPT !.obj[record.id].status = "FILLED"] IN
         IF record.side = "BUY"
         THEN LedgerLoopFrom([s1 EXCEPT !.activePositions = SeqSet(@, record.id)], g, i + 1)
         ELSE LET s2 == IF record.pairedWith # NoId
                        THEN LET s3 == IF InSeq(record.pairedWith, s1.tradeRecords)
                                       THEN UpdateSessionPnL(s1,
                                                (record.price - Rec(s1, record.pairedWith).price)
                                                * record.size)
                                       ELSE s1
                             IN [s3 EXCEPT !.activePositions = SeqDelete(@, record.pairedWith)]
                        ELSE s1
              IN LedgerLoopFrom([s2 EXCEPT !.isTradingLocked = FALSE], g, i + 1)
    ELSE LedgerLoopFrom(s, g, i + 1)

LedgerLoop(s, g) == LedgerLoopFrom(s, g, 1)

\* a variant of getStats for which any SELL paired with a BUY closes it,
\* whatever the SELL's status
GetStatsNakedPositionsMutAnySell(s) ==
    LET records == Ledger(s)
        buyOrders == SelectSeq(records, LAMBDA r : r.side = "BUY")
        sellOrders == SelectSeq(records, LAMBDA r : r.side = "SELL")
        executedBuys == SelectSeq(buyOrders, LAMBDA r : r.status = "FILLED")
        nakedPositions ==
            SelectSeq(executedBuys,
                      LAMBDA buy : ~\E k \in 1..Len(sellOrders) :
                                       sellOrders[k].pairedWith = buy.id)
    IN Len(nakedPositions)

\* getStats, the nakedPositions it reports: the filters of the code over
\* the records in Map order
GetStatsNakedPositions(s) ==
    LET records == Ledger(s)
        buyOrders == SelectSeq(records, LAMBDA r : r.side = "BUY")
        sellOrders == SelectSeq(records, LAMBDA r : r.side = "SELL")
        executedBuys == SelectSeq(buyOrders, LAMBDA r : r.status = "FILLED")
        nakedPositions ==
            SelectSeq(executedBuys,
                      LAMBDA buy : ~\E k \in 1..Len(sellOrders) :
                                       /\ sellOrders[k].pairedWith = buy.id
                                       /\ sellOrders[k].status = "FILLED")
    IN Len(nakedPositions)

\* a variant of resetForNewMarket that keeps the trade records
ResetForNewMarketMutLedger(s, g) ==
    [s |-> [s EXCEPT !.activePositions = << >>,
                     !.isTradingLocked = FALSE,
                     !.circuitBreaker = DefaultCircuitBreaker,
                     !.sessionState = DefaultSessionState,
                     !.priceHistory = DefaultPriceHistory,
                     !.aboveRun = 0,
                     !.sessionNo = @ + 1],
     g |-> ClearAllState(g)]

\* resetForNewMarket, with the gateway's clearAllState it awaits.  The
\* order counter and the quant engine's buffer are not touched.
ResetForNewMarket(s, g) ==
    [s |-> [s EXCEPT !.activePositions = << >>,
                     !.tradeRecords = << >>,
                     !.isTradingLocked = FALSE,
                     !.circuitBreaker = DefaultCircuitBreaker,
                     !.sessionState = DefaultSessionState,
                     !.priceHistory = DefaultPriceHistory,
                     !.aboveRun = 0,
                     !.sessionNo = @ + 1],
     g |-> ClearAllState(g)]


(***************************************************************************)
(* CLOB CLIENT FACTORY (src/src/clobClientFactory.ts).  A factory value f  *)
(* is the module's state: cachedClient, cachedApiCreds, the two promise    *)
(* locks, and whether CONFIG holds API credentials.  apiCredsPromise is 0  *)
(* (null) or the number of the derivation whose promise it is;             *)
(* clientPromise is "null", "pending" or "rejected", and clientAwaits the  *)
(* derivation a pending client creation waits for.  f.derivations counts   *)
(* the createOrDeriveApiKey requests made and f.inFlight holds those the   *)
(* venue has not answered.                                                 *)
(***************************************************************************)
NoCreds == [from |-> "null", n |-> 0]
ConfigCreds == [from |-> "config", n |-> 0]
DerivedCreds(n) == [from |-> "derived", n |-> n]

NoClient == [built |-> FALSE, creds |-> NoCreds]
Client(creds) == [built |-> TRUE, creds |-> creds]

InitFactory ==
    [cachedClient |-> NoClient, cachedApiCreds |-> NoCreds, apiCredsPromise |-> 0,
     clientPromise |-> "null", clientAwaits |-> 0, configCreds |-> FALSE,
     derivations |-> 0, inFlight |-> {}]

\* a variant of getApiCredentials without the promise lock
GetApiCredentialsMutNoLock(f) ==
    IF f.cachedApiCreds # NoCreds
    THEN [f |-> f, settled |-> TRUE, creds |-> f.cachedApiCreds, on |-> 0]
    ELSE IF f.configCreds
    THEN [f |-> [f EXCEPT !.cachedApiCreds = ConfigCreds],
          settled |-> TRUE, creds |-> ConfigCreds, on |-> 0]
    ELSE LET n == f.derivations + 1 IN
         [f |-> [f EXCEPT !.derivations = n, !.apiCredsPromise = n,
                          !.inFlight = @ \cup {n}],
          settled |-> FALSE, creds |-> NoCreds, on |-> n]

\* getApiCredentials up to its return: the cached credentials, the promise
\* of the derivation in flight, the credentials of CONFIG, or the promise of
\* a derivation it starts (createOrDeriveApiKey is called before the
\* function first gives up the processor)
GetApiCredentials(f) ==
    IF f.cachedApiCreds # NoCreds
    THEN [f |-> f, settled |-> TRUE, creds |-> f.cachedApiCreds, on |-> 0]
    ELSE IF f.apiCredsPromise # 0
    THEN [f |-> f, settled |-> FALSE, creds |-> NoCreds, on |-> f.apiCredsPromise]
    ELSE IF f.configCreds
    THEN [f |-> [f EXCEPT !.cachedApiCreds = ConfigCreds],
          settled |-> TRUE, creds |-> ConfigCreds, on |-> 0]
    ELSE LET n == f.derivations + 1 IN
         [f |-> [f EXCEPT !.derivations = n, !.apiCredsPromise = n,
                          !.inFlight = @ \cup {n}],
          settled |-> FALSE, creds |-> NoCreds, on |-> n]

\* createClobClient up to its return: the cached client, the promise of the
\* creation in progress (or of the one that failed: the lock is cleared only
\* on success), or a new creation, which completes at once when
\* getApiCredentials has the credentials at hand
CreateClobClient(f) ==
    IF f.cachedClient.built
    THEN [f |-> f, settled |-> TRUE, ok |-> TRUE, client |-> f.cachedClient]
    ELSE IF f.clientPromise = "pending"
    THEN [f |-> f, settled |-> FALSE, ok |-> FALSE, client |-> NoClient]
    ELSE IF f.clientPromise = "rejected"
    THEN [f |-> f, settled |-> TRUE, ok |-> FALSE, client |-> NoClient]
    ELSE LET r == GetApiCredentials(f) IN
         IF r.settled
         THEN [f |-> [r.f EXCEPT !.cachedClient = Client(r.creds)],
               settled |-> TRUE, ok |-> TRUE, client |-> Client(r.creds)]
         ELSE [f |-> [r.f EXCEPT !.clientPromise = "pending", !.clientAwaits = r.on],
               settled |-> FALSE, ok |-> FALSE, client |-> NoClient]

\* createOrDeriveApiKey of derivation n returns (ok) or throws: the
\* credentials are cached, the lock is cleared, and a client creation that
\* waited for them completes or fails
DerivationSettles(f, n, ok) ==
    LET f1 == [f EXCEPT !.inFlight = @ \ {n},
                        !.cachedApiCreds = IF ok THEN DerivedCreds(n) ELSE @,
                        !.apiCredsPromise = 0]
    IN IF f.clientPromise = "pending" /\ f.clientAwaits = n
       THEN IF ok
            THEN [f1 EXCEPT !.cachedClient = Client(DerivedCreds(n)),
                            !.clientPromise = "null", !.clientAwaits = 0]
            ELSE [f1 EXCEPT !.clientPromise = "rejected", !.clientAwaits = 0]
       ELSE f1

\* resetClobClient
ResetClobClient(f) == [f EXCEPT !.cachedClient = NoClient, !.cachedApiCreds = NoCreds]


(***************************************************************************)
(* MARKETS, CLOCK AND ORDER BOOKS (the environment)                        *)
(***************************************************************************)
NumMarkets == 2
NumTicks == 2
MaxTickCount == 4
RotationTickCount == 3
DenseSteps == 1
ClockStep == 15000
LastMs == 25000

WINDOW_MS == 900000
MANUAL_STRIKE_PRICE == 0

Ticks == 1..NumTicks

\* market m trades in the window [m * WINDOW_MS, (m + 1) * WINDOW_MS)
EndDate(m) == (m + 1) * WINDOW_MS
UpToken(m) == 2 * m - 1
DownToken(m) == 2 * m

NoMarket == [slug |-> 0, strikeOk |-> FALSE]

\* SlugOracle.getActiveMarket at time t: the market that has started, has
\* not ended and accepts orders, or none; the venue lists markets 1..listed
ActiveMarkets(t, listed) == {m \in 1..listed : m * WINDOW_MS <= t /\ t < EndDate(m)}

\* SlugOracle.isMarketExpiring / MarketInfoService.isMarketExpiring
IsMarketExpiring(cm, t, thresholdSeconds) ==
    cm.slug # 0 /\ EndDate(cm.slug) - t < thresholdSeconds * 1000

\* MarketInfoService.getTimeRemaining; times remaining are carried in
\* thousandths of a second (timeRemainingSeconds = minutes * 60, a real)
GetTimeRemaining(cm, t) ==
    IF cm.slug = 0 THEN 0
    ELSE IF EndDate(cm.slug) - t <= 0 THEN 0 ELSE EndDate(cm.slug) - t

\* the instants the clock visits: DenseSteps steps of ClockStep after a
\* window opens, then LastMs before it closes, then the close
NextInstant(t) ==
    LET off == t % WINDOW_MS
        base == t - off
    IN IF off < DenseSteps * ClockStep THEN t + ClockStep
       ELSE IF off < WINDOW_MS - LastMs THEN base + WINDOW_MS - LastMs
       ELSE base + WINDOW_MS

\* OrderBookService.getOrderBook: best ask and best bid of one token, 0 for
\* an empty side; ok = FALSE is a request that throws (both sides empty, or
\* the transport fails)
Quote(ask, bid) == [ok |-> TRUE, ask |-> ask, bid |-> bid]
NoBook == [ok |-> FALSE, ask |-> 0, bid |-> 0]

Quotes == {Quote(700, 680), Quote(740, 720), Quote(320, 300)}

\* the other token of the pair trades at the complement
Mirror(q) == Quote(IF q.bid > 0 THEN 1000 - q.bid ELSE 0,
                   IF q.ask > 0 THEN 1000 - q.ask ELSE 0)

\* OrderBookService.getCurrentPrices: both books, or a throw
NoPrices == [ok |-> FALSE, upAsk |-> 0, upBid |-> 0, downAsk |-> 0, downBid |-> 0]
Prices(up, down) == [ok |-> TRUE, upAsk |-> up.ask, upBid |-> up.bid,
                     downAsk |-> down.ask, downBid |-> down.bid]

(***************************************************************************)
(* STATE                                                                   *)
(***************************************************************************)
VARIABLES
    gateway,            \* ExecutionGateway's fields
    strategy,           \* ExpirationConvergenceStrategy's fields
    currentMarket,      \* MarketInfoService.currentMarket
    sessionLogger,      \* SessionLogger: isActive, ticks (length)
    lastMarketSlug,     \* TradingBot.lastMarketSlug (0 is null)
    tickCount,          \* TradingBot.tickCount
    now,                \* Date.now()
    ticks,              \* the tick() invocations in flight: position and locals
    env,                \* the environment of the run: markets the venue lists,
                        \* ticks the timer fires, spot feed readings
    factory             \* the module state of clobClientFactory and the
                        \* credential requests in flight

vars == <<gateway, strategy, currentMarket, sessionLogger, lastMarketSlug, tickCount,
          now, ticks, env, factory>>

IdleTick ==
    [pc |-> "idle", found |-> 0, marketInfo |-> NoMarket, spotAbove |-> FALSE,
     prices |-> NoPrices, timeRemaining |-> 0, positions |-> << >>,
     direction |-> "null", paperPosition |-> [tokenId |-> 0, shares |-> 0],
     exitToken |-> 0]

InitGateway ==
    [cash |-> BANKROLL, positions |-> << >>, orders |-> << >>, filled |-> {},
     counter |-> 0, isExecutingTrade |-> FALSE, fills |-> << >>,
     logFills |-> FALSE]

InitStrategy ==
    [tradeRecords |-> << >>, activePositions |-> << >>, obj |-> << >>,
     orderCounter |-> 0, isTradingLocked |-> FALSE,
     circuitBreaker |-> DefaultCircuitBreaker, sessionState |-> DefaultSessionState,
     priceHistory |-> DefaultPriceHistory, quantHistory |-> 0,
     aboveRun |-> 0, sessionNo |-> 0]

\* the state after construction of TradingBot
Constructed ==
    /\ gateway \in {InitGateway, [InitGateway EXCEPT !.logFills = TRUE]}
    /\ strategy = InitStrategy
    /\ currentMarket = NoMarket
    /\ sessionLogger = [isActive |-> FALSE, ticks |-> 0]
    /\ lastMarketSlug = 0
    /\ tickCount = 0
    /\ now = WINDOW_MS
    /\ factory = InitFactory

NoTickInFlight == [t \in Ticks |-> IdleTick]

Spots == {"none", "above", "below"}

\* The runs explored.  Overlapping ticks: the timer fires while earlier
\* ticks still await, in the first ClockStep of the first market, the spot
\* at or above strike.  Rotation: every tick ends before the next one fires
\* and the run is watched to the close of the last market.
OverlappingTicks ==
    [markets |-> 1, slots |-> NumTicks, maxTicks |-> MaxTickCount,
     spots |-> {"none", "above"}, lastInstant |-> WINDOW_MS + DenseSteps * ClockStep,
     quotes |-> Quotes]

Rotation ==
    [markets |-> NumMarkets, slots |-> 1, maxTicks |-> RotationTickCount,
     spots |-> Spots, lastInstant |-> EndDate(NumMarkets), quotes |-> Quotes]

\* the late quotes of a market that is about to resolve, and the environment
\* of a market window that ends so
HoldQuotes == {Quote(700, 680), Quote(960, 950), Quote(320, 300)}

Maturity == [Rotation EXCEPT !.quotes = HoldQuotes]

\* what a request for one order book, and for the two books of the market,
\* can answer: a quote of the environment, or a failure
Books == env.quotes \cup {NoBook}
TickPrices == {NoPrices} \cup {Prices(q, Mirror(q)) : q \in env.quotes}

Init ==
    /\ Constructed
    /\ ~gateway.logFills
    /\ ticks = NoTickInFlight
    /\ env \in {OverlappingTicks, Rotation}


(***************************************************************************)
(* TradingBot.tick.  A world w is the program state one segment works on:  *)
(* g, s, cm (currentMarket), log (sessionLogger), last (lastMarketSlug)    *)
(* and tk, the locals of the running tick; feed is what the spot feed can  *)
(* still answer (env.spots).                                               *)
(***************************************************************************)
World(t) == [g |-> gateway, s |-> strategy, cm |-> currentMarket, log |-> sessionLogger,
             last |-> lastMarketSlug, tk |-> ticks[t], feed |-> env.spots]

\* TradeRecord objects no Map and no handler in flight refers to are gone
LiveIds(s, tks) ==
    {s.tradeRecords[i] : i \in 1..Len(s.tradeRecords)}
    \cup UNION {{tks[t].positions[i] : i \in 1..Len(tks[t].positions)} : t \in Ticks}

Collect(s, tks) ==
    [s EXCEPT !.obj = IF LiveIds(s, tks) = {} THEN << >>
                      ELSE [i \in LiveIds(s, tks) |-> s.obj[i]]]

Commit(t, w) ==
    LET tks == [ticks EXCEPT ![t] = w.tk] IN
    /\ gateway' = w.g
    /\ strategy' = Collect(w.s, tks)
    /\ currentMarket' = w.cm
    /\ sessionLogger' = w.log
    /\ lastMarketSlug' = w.last
    /\ ticks' = tks
    /\ env' = [env EXCEPT !.spots = w.feed]
    /\ UNCHANGED <<now, factory>>

\* tick, its end: logTick when a session is active and prices arrived
TickEnd(w) ==
    [w EXCEPT !.log.ticks = IF w.log.isActive /\ w.tk.prices.ok
                            THEN Min(@ + 1, HistoryDetail) ELSE @,
              !.tk = IdleTick]

\* tick returns early
TickReturn(w) == [w EXCEPT !.tk = IdleTick]

\* tick from the kill-zone check to the await inside executeTrade
AfterUpdate(w) ==
    LET tk == w.tk
        killZoneActive == tk.prices.ok /\ IsInKillZone(tk.prices.upAsk, tk.prices.upBid,
                                                        tk.prices.downAsk, tk.prices.downBid)
        strategyCheck == ShouldEnterTrade(w.s, w.g, now, tk.spotAbove, tk.timeRemaining,
                                          tk.prices)
        w1 == [w EXCEPT !.s = strategyCheck.s]
    IN IF strategyCheck.shouldTrade /\ ~killZoneActive /\ ExecuteTradeBegins(w1.s, w1.g)
       THEN [w1 EXCEPT !.s.isTradingLocked = TRUE,
                       !.tk.pc = "trade",
                       !.tk.direction = strategyCheck.direction]
       ELSE TickEnd(w1)

\* updateOrderStatus from the snapshot of activePositions
UpdatePhase2(w) ==
    IF Len(w.s.activePositions) = 0 THEN AfterUpdate(w)
    ELSE [w EXCEPT !.tk.pc = "pos", !.tk.positions = w.s.activePositions]

\* a variant of tick that goes on to the prices without looking at the
\* strike
ProceedMutNoStrikeCheck(w, marketInfo, spot) ==
    IF spot = "none" THEN TickReturn(w)
    ELSE [w EXCEPT !.feed = @ \ {"none"},
                   !.tk = [IdleTick EXCEPT !.pc = "prices", !.marketInfo = marketInfo,
                                           !.spotAbove = (spot = "above")]]

\* tick from the spot price to the await of getCurrentPrices; spot is
\* "none" (the feed has no price yet, getBTCPrice throws), "above" or "below"
\* the strike.  A feed that has had a price keeps one.
Proceed(w, marketInfo, spot) ==
    IF spot = "none" THEN TickReturn(w)
    ELSE IF ~marketInfo.strikeOk /\ ~(MANUAL_STRIKE_PRICE > 0)
    THEN TickReturn([w EXCEPT !.feed = @ \ {"none"}])
    ELSE [w EXCEPT !.feed = @ \ {"none"},
                   !.tk = [IdleTick EXCEPT !.pc = "prices", !.marketInfo = marketInfo,
                                           !.spotAbove = (spot = "above")]]

\* rotation, from resetForNewMarket on
FinishRotation(w, marketInfo, spot) ==
    LET r == ResetForNewMarket(w.s, w.g) IN
    Proceed([w EXCEPT !.s = r.s, !.g = r.g,
                      !.log = [isActive |-> TRUE, ticks |-> 0],
                      !.last = marketInfo.slug],
            marketInfo, spot)

\* rotation, from the end of the session log on: endSession returns at once
\* when no tick was logged and otherwise awaits the file write
EndSessions(w, marketInfo, spot) ==
    IF w.log.isActive /\ w.log.ticks > 0
    THEN [w EXCEPT !.tk = [IdleTick EXCEPT !.pc = "saving", !.marketInfo = marketInfo]]
    ELSE FinishRotation([w EXCEPT !.log.isActive = FALSE], marketInfo, spot)


(***************************************************************************)
(* ACTIONS: one per run of tick() between two I/O awaits                   *)
(***************************************************************************)

\* setInterval fires tick() with nothing to stop it while an earlier tick
\* is still awaiting.  Tick slots are interchangeable, so a new tick takes
\* the lowest free one.
TickFires(t) ==
    /\ t <= env.slots
    /\ ticks[t].pc = "idle"
    /\ \A u \in 1..(t - 1) : ticks[u].pc # "idle"
    /\ tickCount < env.maxTicks
    /\ tickCount' = tickCount + 1

\* tick starts; the current market is known and not expiring
TickBegin(t) ==
    /\ TickFires(t)
    /\ currentMarket.slug # 0
    /\ ~IsMarketExpiring(currentMarket, now, MARKET_ROTATION_THRESHOLD)
    /\ \E spot \in env.spots : Commit(t, Proceed(World(t), currentMarket, spot))

\* setInterval fires tick(); no market yet or the market is expiring:
\* getActiveMarket is awaited.  The oracle validates against the time of
\* the call.
TickDiscover(t) ==
    /\ TickFires(t)
    /\ currentMarket.slug = 0
       \/ IsMarketExpiring(currentMarket, now, MARKET_ROTATION_THRESHOLD)
    /\ \E found \in ActiveMarkets(now, env.markets) \cup {0} :
          Commit(t, [World(t) EXCEPT !.tk.pc = "discover", !.tk.found = found])

\* a variant of the slug comparison that takes every discovered market for
\* a new one
SlugChangedMutAlways(last, slug) == TRUE

\* tick: this.lastMarketSlug !== marketInfo.eventSlug
SlugChanged(last, slug) == last # slug

\* getActiveMarket returns: nothing, the same market, the first market, or
\* a new market (rotation, up to its first I/O await)
Discovered(t) ==
    /\ UNCHANGED tickCount
    /\ ticks[t].pc = "discover"
    /\ \E spot \in env.spots, strikeOk \in BOOLEAN :
          LET w == World(t)
              marketInfo == [slug |-> w.tk.found, strikeOk |-> strikeOk]
              w1 == [w EXCEPT !.cm = marketInfo]
              paperPosition == GetPaperPosition(w.g)
              oldMarketInfo == w1.cm
              tokenId == IF paperPosition.tokenId = UpToken(oldMarketInfo.slug)
                         THEN UpToken(oldMarketInfo.slug)
                         ELSE DownToken(oldMarketInfo.slug)
          IN Commit(t,
                IF w.tk.found = 0 THEN TickReturn(w)
                ELSE IF ~SlugChanged(w.last, marketInfo.slug) THEN Proceed(w1, marketInfo, spot)
                ELSE IF w.last = 0
                THEN Proceed([w1 EXCEPT !.log = [isActive |-> TRUE, ticks |-> 0],
                                        !.last = marketInfo.slug],
                             marketInfo, spot)
                ELSE IF HasPaperPosition(w.g)
                THEN [w1 EXCEPT !.tk = [IdleTick EXCEPT !.pc = "emergency",
                                                        !.marketInfo = marketInfo,
                                                        !.paperPosition =
                                                            [tokenId |-> paperPosition.tokenId,
                                                             shares |-> paperPosition.shares],
                                                        !.exitToken = tokenId]]
                ELSE EndSessions(w1, marketInfo, spot))

\* rotation: the order book for the emergency exit arrives (or the request
\* fails); executeFAK SELL at the bid, or at 0.50 when the bid is not positive
EmergencyExit(t) ==
    /\ UNCHANGED tickCount
    /\ ticks[t].pc = "emergency"
    /\ \E spot \in env.spots, orderBook \in Books :
          LET w == World(t)
              exitPrice == IF orderBook.bid > 0 THEN orderBook.bid ELSE DEFAULT_FOK_PRICE
              exitSize == w.tk.paperPosition.shares
              fak == ExecutePaperFAK(w.g, w.tk.exitToken, "SELL", exitPrice, exitSize)
              w1 == IF orderBook.ok THEN [w EXCEPT !.g = fak.g] ELSE w
          IN Commit(t, EndSessions(w1, w.tk.marketInfo, spot))

\* rotation: the session file is written
SessionSaved(t) ==
    /\ UNCHANGED tickCount
    /\ ticks[t].pc = "saving"
    /\ \E spot \in env.spots :
          LET w == World(t) IN
          Commit(t, FinishRotation([w EXCEPT !.log.isActive = FALSE], w.tk.marketInfo, spot))

\* getCurrentPrices returns (or throws): checkPaperFills for UP then DOWN,
\* then updateOrderStatus up to its first order book request
ApplyFills(g, marketInfo, prices) ==
    LET g1 == IF prices.ok /\ (prices.upAsk > 0 \/ prices.upBid > 0)
              THEN CheckPaperFills(g, UpToken(marketInfo.slug), prices.upAsk, prices.upBid)
              ELSE g
    IN IF prices.ok /\ (prices.downAsk > 0 \/ prices.downBid > 0)
       THEN CheckPaperFills(g1, DownToken(marketInfo.slug), prices.downAsk, prices.downBid)
       ELSE g1

PricesArrive(t) ==
    /\ UNCHANGED tickCount
    /\ ticks[t].pc = "prices"
    /\ \E prices \in TickPrices :
          LET w == World(t)
              w1 == [w EXCEPT !.tk.prices = prices,
                              !.tk.timeRemaining = GetTimeRemaining(w.cm, now),
                              !.g = ApplyFills(w.g, w.tk.marketInfo, prices)]
          IN Commit(t,
                IF w1.s.circuitBreaker.isCoolingDown /\ w1.s.circuitBreaker.crashTokenId # 0
                THEN [w1 EXCEPT !.tk.pc = "cb"]
                ELSE UpdatePhase2(w1))

\* updateOrderStatus: the crash token's order book arrives (or fails)
BreakerBook(t) ==
    /\ UNCHANGED tickCount
    /\ ticks[t].pc = "cb"
    /\ \E orderBook \in Books :
          LET w == World(t)
              w1 == IF orderBook.ok
                    THEN [w EXCEPT !.s = CheckCircuitBreaker(w.s, now, orderBook.bid)]
                    ELSE w
          IN Commit(t, UpdatePhase2(w1))

\* updateOrderStatus: the order book of the next position of the snapshot
\* arrives (or fails); after the last one the ledger loop and the rest of
\* the tick
PositionBook(t) ==
    /\ UNCHANGED tickCount
    /\ ticks[t].pc = "pos"
    /\ \E orderBook \in Books :
          LET w == World(t)
              r == ProcessPosition(w.s, w.g, now, Head(w.tk.positions), w.tk.timeRemaining,
                                   orderBook)
              w1 == [w EXCEPT !.s = r.s, !.g = r.g, !.tk.positions = Tail(@)]
          IN Commit(t,
                IF Len(w1.tk.positions) > 0 THEN w1
                ELSE AfterUpdate([w1 EXCEPT !.s = LedgerLoop(w1.s, w1.g)]))

\* executeTrade: the order book of the chosen token arrives (or fails)
TradeBook(t) ==
    /\ UNCHANGED tickCount
    /\ ticks[t].pc = "trade"
    /\ \E orderBook \in Books :
          LET w == World(t)
              m == w.tk.marketInfo.slug
              tokenId == IF w.tk.direction = "UP" THEN UpToken(m) ELSE DownToken(m)
              r == ExecuteTrade(w.s, w.g, now, tokenId, w.tk.direction, orderBook)
          IN Commit(t, TickEnd([w EXCEPT !.s = r.s, !.g = r.g]))

\* time passes
Advance ==
    /\ NextInstant(now) <= env.lastInstant
    /\ now' = NextInstant(now)
    /\ UNCHANGED <<gateway, strategy, currentMarket, sessionLogger, lastMarketSlug,
                   tickCount, ticks, env, factory>>

Next ==
    \/ \E t \in Ticks :
          \/ TickBegin(t)
          \/ TickDiscover(t)
          \/ Discovered(t)
          \/ EmergencyExit(t)
          \/ SessionSaved(t)
          \/ PricesArrive(t)
          \/ BreakerBook(t)
          \/ PositionBook(t)
          \/ TradeBook(t)
    \/ Advance

Spec == Init /\ [][Next]_vars


(***************************************************************************)
(* The gateway on its own: any caller, any order of its public operations  *)
(***************************************************************************)
MaxGatewayOrders == 1
MaxFills == 2

GatewayPrices == {500, 700}
GatewaySizes == {10000, 300000}
GatewayTokens == {1, 2}
Sides == {"BUY", "SELL"}

GatewayStep(g) ==
    /\ Len(g.fills) <= MaxFills
    /\ gateway' = g
    /\ UNCHANGED <<strategy, currentMarket, sessionLogger, lastMarketSlug, tickCount,
                   now, ticks, env, factory>>

PlaceLimitOrderOp ==
    /\ gateway.counter < MaxGatewayOrders
    /\ \E tokenId \in GatewayTokens, side \in Sides, price \in GatewayPrices,
       size \in GatewaySizes :
        GatewayStep(PlacePaperOrder(gateway, tokenId, side, price, size).g)

PlaceFOKOrderOp ==
    /\ gateway.counter < MaxGatewayOrders
    /\ \E tokenId \in GatewayTokens, side \in Sides, price \in GatewayPrices \cup {0},
       size \in GatewaySizes :
        LET p == IF price = 0 THEN DEFAULT_FOK_PRICE ELSE price
            amount == IF side = "BUY" THEN p * size ELSE size
        IN GatewayStep(PlaceFOKOrder(gateway, tokenId, side, amount, price).g)

ExecuteFAKOp ==
    /\ Len(gateway.fills) < MaxFills
    /\ \E tokenId \in GatewayTokens, side \in Sides, price \in GatewayPrices,
       size \in GatewaySizes :
        GatewayStep(ExecutePaperFAK(gateway, tokenId, side, price, size).g)

CancelOrderOp ==
    /\ gateway.orders # << >>
    /\ \E n \in 0..MaxGatewayOrders :
          GatewayStep(CancelPaperOrder(gateway, PaperId(n)).g)

CheckPaperFillsOp ==
    /\ Len(gateway.fills) < MaxFills
    /\ \E tokenId \in GatewayTokens, ask \in GatewayPrices \cup {0},
       bid \in GatewayPrices \cup {0} :
        /\ (ask = 0 \/ bid <= ask)
        /\ GatewayStep(CheckPaperFills(gateway, tokenId, ask, bid))

ClearAllStateOp ==
    /\ gateway # ClearAllState(gateway)
    /\ GatewayStep(ClearAllState(gateway))

NextGateway ==
    \/ PlaceLimitOrderOp
    \/ PlaceFOKOrderOp
    \/ ExecuteFAKOp
    \/ CancelOrderOp
    \/ CheckPaperFillsOp
    \/ ClearAllStateOp

InitGatewayOnly ==
    /\ Constructed
    /\ gateway.logFills
    /\ ticks = NoTickInFlight
    /\ env = [markets |-> 0, slots |-> 0, maxTicks |-> 0, spots |-> {}, lastInstant |-> 0]

SpecGateway == InitGatewayOnly /\ [][NextGateway]_vars

(***************************************************************************)
(* shouldEnterTrade on its own: the freshly constructed strategy is asked  *)
(* once, with arguments drawn from EntryAsks x EntryAsks, both directions  *)
(* and two times to expiry                                                 *)
(***************************************************************************)
EntryAsks == {0, 649, 650, 700, 850, 851}
EntryTimes == {150000, 600000}

EntryPrices ==
    {NoPrices} \cup {Prices(Quote(a, 640), Quote(b, 640)) : a \in EntryAsks, b \in EntryAsks}

InitEntry ==
    /\ Constructed
    /\ ~gateway.logFills
    /\ env = [markets |-> 0, slots |-> 0, maxTicks |-> 0, spots |-> {}, lastInstant |-> 0]
    /\ \E prices \in EntryPrices, spotAbove \in BOOLEAN, timeRemaining \in EntryTimes :
          ticks = [NoTickInFlight EXCEPT ![1] =
                       [IdleTick EXCEPT !.pc = "check", !.prices = prices,
                                        !.spotAbove = spotAbove,
                                        !.timeRemaining = timeRemaining]]

EntryCheck ==
    /\ ticks[1].pc = "check"
    /\ LET tk == ticks[1]
           strategyCheck == ShouldEnterTrade(strategy, gateway, now, tk.spotAbove,
                                             tk.timeRemaining, tk.prices)
       IN /\ strategy' = strategyCheck.s
          /\ ticks' = [ticks EXCEPT ![1].pc = "checked",
                                    ![1].direction = strategyCheck.direction]
    /\ UNCHANGED <<gateway, currentMarket, sessionLogger, lastMarketSlug, tickCount,
                   now, env, factory>>

SpecEntry == InitEntry /\ [][EntryCheck]_vars

(***************************************************************************)
(* checkPaperFills on its own: a gateway that holds at most one position   *)
(* and up to MaxResting resting orders is given the same book of one token *)
(* twice, as two fill-check passes.  The gateways are built from the       *)
(* constructed one by executeFAK and placeLimitOrder.                      *)
(***************************************************************************)
MaxResting == 2

FillOrders ==
    [tokenId : GatewayTokens, side : Sides, price : GatewayPrices, size : {10000}]

RECURSIVE PlaceAll(_, _)
PlaceAll(g, os) ==
    IF os = << >> THEN g
    ELSE PlaceAll(PlacePaperOrder(g, Head(os).tokenId, Head(os).side, Head(os).price,
                                  Head(os).size).g,
                  Tail(os))

FillGateways ==
    LET g0 == [InitGateway EXCEPT !.logFills = TRUE]
        starts == {g0, ExecutePaperFAK(g0, 1, "BUY", 500, 100000).g}
        resting == UNION {[1..n -> FillOrders] : n \in 0..MaxResting}
    IN {PlaceAll(g, os) : g \in starts, os \in resting}

FillBooks ==
    {q \in [ask : GatewayPrices \cup {0}, bid : GatewayPrices \cup {0}] :
        q.ask = 0 \/ q.bid <= q.ask}

InitFills ==
    /\ gateway \in FillGateways
    /\ strategy = InitStrategy
    /\ currentMarket = NoMarket
    /\ sessionLogger = [isActive |-> FALSE, ticks |-> 0]
    /\ lastMarketSlug = 0
    /\ tickCount = 0
    /\ now = WINDOW_MS
    /\ factory = InitFactory
    /\ env = [markets |-> 0, slots |-> 0, maxTicks |-> 0, spots |-> {}, lastInstant |-> 0]
    /\ \E tokenId \in GatewayTokens, q \in FillBooks :
          ticks = [NoTickInFlight EXCEPT ![1] =
                       [IdleTick EXCEPT !.pc = "fills", !.exitToken = tokenId,
                                        !.prices = Prices(Quote(q.ask, q.bid), NoBook)]]

\* one call of checkPaperFills(tokenId, currentBestAsk, currentBestBid)
FillPass ==
    /\ ticks[1].pc \in {"fills", "filled once"}
    /\ gateway' = CheckPaperFills(gateway, ticks[1].exitToken, ticks[1].prices.upAsk,
                                  ticks[1].prices.upBid)
    /\ ticks' = [ticks EXCEPT ![1].pc = IF @ = "fills" THEN "filled once"
                                        ELSE "filled twice"]
    /\ UNCHANGED <<strategy, currentMarket, sessionLogger, lastMarketSlug, tickCount,
                   now, env, factory>>

SpecFills == InitFills /\ [][FillPass]_vars

(***************************************************************************)
(* The session lock on its own: completed trades report their P&L to       *)
(* updateSessionPnL, entry checks are made in between, and the market      *)
(* rotates.  A trade is $2.00 at 0.70 (2.8571 shares); it ends at the      *)
(* limit SELL, FIXED_PROFIT_TARGET above the entry, or at a stop-loss exit *)
(* 0.02 under a bid that fell FIXED_STOP_LOSS below the entry.             *)
(***************************************************************************)
MaxSessionTrades == 9
MaxSessions == 2

SessionSizes == {28571}
SessionPnLs ==
    UNION {{FIXED_PROFIT_TARGET * size, (0 - (FIXED_STOP_LOSS + 20)) * size} :
              size \in SessionSizes}

SessionPrices == {NoPrices, Prices(Quote(700, 680), Quote(320, 300))}

InitSession ==
    /\ Constructed
    /\ ~gateway.logFills
    /\ env = [markets |-> 0, slots |-> 0, maxTicks |-> 0, spots |-> {}, lastInstant |-> 0]
    /\ ticks = [NoTickInFlight EXCEPT ![1] = [IdleTick EXCEPT !.pc = "session"]]

SessionStep(s, g, pc) ==
    /\ strategy' = s
    /\ gateway' = g
    /\ ticks' = [ticks EXCEPT ![1].pc = pc]
    /\ UNCHANGED <<currentMarket, sessionLogger, lastMarketSlug, tickCount, now, env, factory>>

\* a SELL of a completed pair is seen filled: updateSessionPnL(pnl)
SessionSellFilled ==
    /\ strategy.sessionState.tradesThisSession < MaxSessionTrades
    /\ \E pnl \in SessionPnLs :
          SessionStep(UpdateSessionPnL(strategy, pnl), gateway, "sold")

\* shouldEnterTrade with the spot above the strike and 600 s left
SessionEntryCheck ==
    \E prices \in SessionPrices :
        LET strategyCheck == ShouldEnterTrade(strategy, gateway, now, TRUE, 600000, prices)
        IN SessionStep(strategyCheck.s, gateway,
                       IF strategyCheck.shouldTrade THEN "accepted" ELSE "rejected")

\* resetForNewMarket
SessionRotates ==
    /\ strategy.sessionNo < MaxSessions
    /\ LET r == ResetForNewMarket(strategy, gateway)
       IN SessionStep(r.s, r.g, "session")

NextSession == SessionSellFilled \/ SessionEntryCheck \/ SessionRotates

SpecSession == InitSession /\ [][NextSession]_vars

(***************************************************************************)
(* updateOrderStatus with the live gateway (PAPER_TRADE other than         *)
(* 'true').  cancelOrder, executeFAK and isOrderFilled are then requests   *)
(* to the venue, so the handler gives up the processor at each of them as  *)
(* it does at an order book request, and the executions that overlapping   *)
(* ticks start interleave at all of these points.  The ledger is the one   *)
(* executeTrade leaves after a BUY at 0.70 with its LIMIT SELL at 0.72;    *)
(* env.order is the state of that SELL order at the venue, which fills it  *)
(* when it pleases.  The paper fields of the gateway are not used.         *)
(***************************************************************************)
MaxUpdates == 3

LiveBooks == {Quote(700, 680), Quote(320, 300), Quote(960, 950), NoBook}
LiveTimes == {600000, 25000}

LiveIdle ==
    [pc |-> "idle", timeRemaining |-> 0, positions |-> << >>, activePosition |-> NoId,
     pendingSell |-> NoId, currentBid |-> 0, isBreakeven |-> FALSE, index |-> 0]

LiveLedger ==
    ExecuteTrade([InitStrategy EXCEPT !.isTradingLocked = TRUE], InitGateway, WINDOW_MS,
                 UpToken(1), "UP", Quote(700, 680)).s

InitLive ==
    /\ gateway = InitGateway
    /\ strategy = LiveLedger
    /\ currentMarket = [slug |-> 1, strikeOk |-> TRUE]
    /\ sessionLogger = [isActive |-> TRUE, ticks |-> 0]
    /\ lastMarketSlug = 1
    /\ tickCount = 0
    /\ now = WINDOW_MS
    /\ factory = InitFactory
    /\ ticks = [t \in Ticks |-> LiveIdle]
    /\ env = [markets |-> 1, slots |-> NumTicks, maxTicks |-> MaxUpdates, spots |-> {},
              lastInstant |-> WINDOW_MS, order |-> "OPEN"]

LiveStep(t, r) ==
    /\ strategy' = r.s
    /\ ticks' = [ticks EXCEPT ![t] = r.tk]
    /\ UNCHANGED <<gateway, currentMarket, sessionLogger, lastMarketSlug, now, factory>>

\* the closing loop over tradeRecords from index i up to its next await:
\* isOrderFilled is asked for the first PENDING record; with none left the
\* handler returns
LiveLedgerFrom(s, tk, i) ==
    LET hits == {k \in i..Len(s.tradeRecords) : Rec(s, s.tradeRecords[k]).status = "PENDING"}
    IN IF hits = {} THEN [s |-> s, tk |-> LiveIdle]
       ELSE [s |-> s, tk |-> [tk EXCEPT !.pc = "isOrderFilled", !.index = FirstIndex(hits)]]

\* the loop over the snapshot goes to its next position, or ends
LiveNextPosition(s, tk) ==
    IF tk.positions = << >> THEN LiveLedgerFrom(s, tk, 1)
    ELSE [s |-> s, tk |-> [tk EXCEPT !.pc = "pos", !.activePosition = Head(tk.positions),
                                     !.positions = Tail(tk.positions)]]

\* the snapshot of activePositions; the handler returns when it is empty
LivePhase2(s, tk) ==
    IF Len(s.activePositions) = 0 THEN [s |-> s, tk |-> LiveIdle]
    ELSE LiveNextPosition(s, [tk EXCEPT !.positions = s.activePositions])

\* a tick calls updateOrderStatus(timeRemainingSeconds)
LiveUpdateStarts(t) ==
    /\ ticks[t].pc = "idle"
    /\ tickCount < env.maxTicks
    /\ tickCount' = tickCount + 1
    /\ UNCHANGED env
    /\ \E timeRemaining \in LiveTimes :
          LET tk == [LiveIdle EXCEPT !.timeRemaining = timeRemaining] IN
          LiveStep(t, IF strategy.circuitBreaker.isCoolingDown
                         /\ strategy.circuitBreaker.crashTokenId # 0
                      THEN [s |-> strategy, tk |-> [tk EXCEPT !.pc = "cb"]]
                      ELSE LivePhase2(strategy, tk))

\* the crash token's order book arrives (or fails)
LiveBreakerBook(t) ==
    /\ ticks[t].pc = "cb"
    /\ UNCHANGED <<tickCount, env>>
    /\ \E orderBook \in LiveBooks :
          LiveStep(t, LivePhase2(IF orderBook.ok
                                 THEN CheckCircuitBreaker(strategy, now, orderBook.bid)
                                 ELSE strategy,
                                 ticks[t]))

\* the order book of the position arrives (or fails): the stop-loss branch
\* up to cancelOrder, or to executeFAK when no SELL is pending; the
\* hold-to-maturity branch up to cancelOrder; or the next position
LivePositionBook(t) ==
    /\ ticks[t].pc = "pos"
    /\ UNCHANGED <<tickCount, env>>
    /\ \E orderBook \in LiveBooks :
          LET tk == ticks[t]
              id == tk.activePosition
              activePosition == Rec(strategy, id)
              currentBid == orderBook.bid
              s1 == IF BreakEvenArms(activePosition, currentBid)
                    THEN [strategy EXCEPT !.obj[id].breakEvenTriggered = TRUE,
                                          !.obj[id].fixedStopDist = 0]
                    ELSE strategy
              pendingSell == PendingSellOf(s1, id)
              tk1 == [tk EXCEPT !.pendingSell = pendingSell, !.currentBid = currentBid,
                                !.isBreakeven = activePosition.breakEvenTriggered
                                                /\ currentBid >= activePosition.price - 5]
          IN LiveStep(t,
                IF ~orderBook.ok THEN LiveNextPosition(strategy, tk)
                ELSE IF StopTriggers(activePosition, currentBid)
                THEN [s |-> s1, tk |-> [tk1 EXCEPT !.pc = IF pendingSell # NoId THEN "cancel"
                                                          ELSE "fak"]]
                ELSE IF tk.timeRemaining < 45 * 1000 /\ currentBid > 940 /\ pendingSell # NoId
                THEN [s |-> s1, tk |-> [tk1 EXCEPT !.pc = "hold"]]
                ELSE LiveNextPosition(s1, tk))

\* the venue's answer to a cancel request: an open order is cancelled
CancelAtVenue(order) == IF order = "OPEN" THEN "CANCELED" ELSE order

\* stop-loss branch: cancelOrder returns (its result is not read); the
\* record is marked and executeFAK is awaited
LiveCancelReturns(t) ==
    /\ ticks[t].pc = "cancel"
    /\ UNCHANGED tickCount
    /\ env' = [env EXCEPT !.order = CancelAtVenue(@)]
    /\ LiveStep(t, [s |-> [strategy EXCEPT !.obj[ticks[t].pendingSell].status = "CANCELLED"],
                    tk |-> [ticks[t] EXCEPT !.pc = "fak"]])

\* stop-loss branch: executeFAK returns sold or not sold
LiveFAKReturns(t) ==
    /\ ticks[t].pc = "fak"
    /\ UNCHANGED <<tickCount, env>>
    /\ \E sold \in BOOLEAN :
          LET tk == ticks[t]
              id == tk.activePosition
              activePosition == Rec(strategy, id)
              exitPrice == Max(10, tk.currentBid - 20)
              exitSize == activePosition.size
              kind == IF tk.isBreakeven THEN "BREAKEVEN" ELSE "STOP_LOSS"
              stopLossRecord == TradeRecord(strategy.orderCounter, "SELL",
                                            activePosition.tokenId, activePosition.tokenType,
                                            exitPrice, exitSize, StopLossId(kind, now),
                                            "FILLED", id, kind, 0)
              s3 == [AddRecord(strategy, stopLossRecord) EXCEPT
                         !.orderCounter = @ + 1,
                         !.activePositions = SeqDelete(@, id)]
              s4 == UpdateSessionPnL(s3, (exitPrice - activePosition.price) * exitSize)
              s5 == IF tk.isBreakeven THEN s4
                    ELSE TriggerCircuitBreaker(s4, now, activePosition.tokenId, tk.currentBid)
              s6 == IF sold THEN s5 ELSE strategy
          IN LiveStep(t, LiveNextPosition([s6 EXCEPT !.isTradingLocked = FALSE], tk))

\* hold-to-maturity branch: cancelOrder returns
LiveHoldCancelReturns(t) ==
    /\ ticks[t].pc = "hold"
    /\ UNCHANGED tickCount
    /\ env' = [env EXCEPT !.order = CancelAtVenue(@)]
    /\ LiveStep(t, LiveNextPosition(
                      [strategy EXCEPT !.obj[ticks[t].pendingSell].status = "CANCELLED",
                                       !.obj[ticks[t].pendingSell].exitType = "HOLD_TO_MATURITY",
                                       !.isTradingLocked = FALSE],
                      ticks[t]))

\* closing loop: isOrderFilled returns for the record it was asked for (a
\* failed request counts as not filled); the loop goes on
LiveOrderStatusReturns(t) ==
    /\ ticks[t].pc = "isOrderFilled"
    /\ UNCHANGED <<tickCount, env>>
    /\ \E isFilled \in {env.order = "FILLED", FALSE} :
          LET tk == ticks[t]
              record == Rec(strategy, strategy.tradeRecords[tk.index])
              s1 == [strategy EXCEPT !.obj[record.id].status = "FILLED"]
              s2 == IF record.side = "BUY"
                    THEN [s1 EXCEPT !.activePositions = SeqSet(@, record.id)]
                    ELSE [(IF record.pairedWith # NoId
                           THEN [(IF InSeq(record.pairedWith, s1.tradeRecords)
                                  THEN UpdateSessionPnL(s1,
                                           (record.price - Rec(s1, record.pairedWith).price)
                                           * record.size)
                                  ELSE s1)
                                    EXCEPT !.activePositions = SeqDelete(@, record.pairedWith)]
                           ELSE s1)
                            EXCEPT !.isTradingLocked = FALSE]
          IN LiveStep(t, LiveLedgerFrom(IF isFilled THEN s2 ELSE strategy, tk, tk.index + 1))

\* the venue fills the resting SELL
VenueFills ==
    /\ env.order = "OPEN"
    /\ env' = [env EXCEPT !.order = "FILLED"]
    /\ UNCHANGED <<gateway, strategy, currentMarket, sessionLogger, lastMarketSlug,
                   tickCount, now, ticks, factory>>

NextLive ==
    \/ \E t \in Ticks :
          \/ LiveUpdateStarts(t)
          \/ LiveBreakerBook(t)
          \/ LivePositionBook(t)
          \/ LiveCancelReturns(t)
          \/ LiveFAKReturns(t)
          \/ LiveHoldCancelReturns(t)
          \/ LiveOrderStatusReturns(t)
    \/ VenueFills

SpecLive == InitLive /\ [][NextLive]_vars

(***************************************************************************)
(* The bot in a market whose winning token trades above 0.94 before it     *)
(* resolves: the program of Spec, ticks one after the other, with the late *)
(* quotes.                                                                 *)
(***************************************************************************)
InitHold ==
    /\ Constructed
    /\ ~gateway.logFills
    /\ ticks = NoTickInFlight
    /\ env = Maturity

SpecHold == InitHold /\ [][Next]_vars

(***************************************************************************)
(* The entry on its own: a bot started with one of several bankrolls       *)
(* (BANKROLL is read from the environment) runs the entry check of a tick  *)
(* and, when it accepts, executeTrade; the next tick checks again with the *)
(* position of the first.  Only tick 1 runs.                               *)
(***************************************************************************)
MaxTradeChecks == 2

\* $0.50, $1, $5, $20
TradeCash == {5000000, 10000000, 50000000, BANKROLL}

TradeQuotes == {Quote(670, 660), Quote(700, 680), Quote(980, 970), Quote(995, 990)}

CheckTick(prices) ==
    [IdleTick EXCEPT !.pc = "check", !.prices = prices, !.spotAbove = TRUE,
                     !.timeRemaining = 600000,
                     !.marketInfo = [slug |-> 1, strikeOk |-> TRUE]]

InitTrade ==
    /\ \E cash \in TradeCash : gateway = [InitGateway EXCEPT !.cash = cash, !.logFills = TRUE]
    /\ strategy = InitStrategy
    /\ currentMarket = [slug |-> 1, strikeOk |-> TRUE]
    /\ sessionLogger = [isActive |-> FALSE, ticks |-> 0]
    /\ lastMarketSlug = 1
    /\ tickCount = 1
    /\ now = WINDOW_MS
    /\ factory = InitFactory
    /\ env = [markets |-> 1, slots |-> 1, maxTicks |-> MaxTradeChecks, spots |-> {"above"},
              lastInstant |-> WINDOW_MS, quotes |-> TradeQuotes]
    /\ \E prices \in {NoPrices} \cup {Prices(q, Mirror(q)) : q \in TradeQuotes} :
          ticks = [NoTickInFlight EXCEPT ![1] = CheckTick(prices)]

\* tick after updateOrderStatus: the kill-zone check, shouldEnterTrade, and
\* executeTrade up to its await of the order book
TradeCheck ==
    /\ UNCHANGED tickCount
    /\ ticks[1].pc = "check"
    /\ Commit(1, AfterUpdate(World(1)))

\* the next tick reaches its entry check (nothing filled in between)
TradeCheckAgain ==
    /\ ticks[1].pc = "idle"
    /\ tickCount < env.maxTicks
    /\ tickCount' = tickCount + 1
    /\ \E prices \in TickPrices : ticks' = [ticks EXCEPT ![1] = CheckTick(prices)]
    /\ UNCHANGED <<gateway, strategy, currentMarket, sessionLogger, lastMarketSlug, now,
                   env, factory>>

NextTrade ==
    \/ TradeCheck
    \/ TradeBook(1)
    \/ TradeCheckAgain

SpecTrade == InitTrade /\ [][NextTrade]_vars

(***************************************************************************)
(* The client factory on its own: callers (the gateway, the order book     *)
(* service, the trading service, or any importer of the module) call       *)
(* getApiCredentials and createClobClient in any order and overlap, the    *)
(* venue answers a derivation or fails it, and the cache is reset.  A      *)
(* caller t is ticks[t]: what it awaits, and what it received last.        *)
(***************************************************************************)
MaxCredCalls == 4

CallerIdle == [pc |-> "idle", on |-> 0, ok |-> FALSE, creds |-> NoCreds]

InitCreds ==
    /\ gateway = InitGateway
    /\ strategy = InitStrategy
    /\ currentMarket = NoMarket
    /\ sessionLogger = [isActive |-> FALSE, ticks |-> 0]
    /\ lastMarketSlug = 0
    /\ tickCount = 0
    /\ now = WINDOW_MS
    /\ env = [markets |-> 0, slots |-> 0, maxTicks |-> MaxCredCalls, spots |-> {},
              lastInstant |-> 0]
    /\ ticks = [t \in Ticks |-> CallerIdle]
    /\ factory \in {InitFactory, [InitFactory EXCEPT !.configCreds = TRUE]}

CredsStep(f, tks) ==
    /\ factory' = f
    /\ ticks' = tks
    /\ UNCHANGED <<gateway, strategy, currentMarket, sessionLogger, lastMarketSlug, now, env>>

\* caller t calls getApiCredentials()
CallGetApiCredentials(t) ==
    /\ ticks[t].pc = "idle"
    /\ tickCount < env.maxTicks
    /\ tickCount' = tickCount + 1
    /\ LET r == GetApiCredentials(factory) IN
       CredsStep(r.f, [ticks EXCEPT ![t] =
                          IF r.settled
                          THEN [pc |-> "idle", on |-> 0, ok |-> TRUE, creds |-> r.creds]
                          ELSE [pc |-> "creds", on |-> r.on, ok |-> FALSE,
                                creds |-> NoCreds]])

\* caller t calls createClobClient()
CallCreateClobClient(t) ==
    /\ ticks[t].pc = "idle"
    /\ tickCount < env.maxTicks
    /\ tickCount' = tickCount + 1
    /\ LET r == CreateClobClient(factory) IN
       CredsStep(r.f, [ticks EXCEPT ![t] =
                          IF r.settled
                          THEN [pc |-> "idle", on |-> 0, ok |-> r.ok,
                                creds |-> r.client.creds]
                          ELSE [pc |-> "client", on |-> r.f.clientAwaits, ok |-> FALSE,
                                creds |-> NoCreds]])

\* the venue answers derivation n: every caller that holds its promise, or
\* the promise of the client creation that waits for it, gets its result
DerivationReturns ==
    /\ UNCHANGED tickCount
    /\ \E n \in factory.inFlight, ok \in BOOLEAN :
          CredsStep(DerivationSettles(factory, n, ok),
                    [t \in Ticks |->
                        IF ticks[t].pc # "idle" /\ ticks[t].on = n
                        THEN [pc |-> "idle", on |-> n, ok |-> ok,
                              creds |-> IF ok THEN DerivedCreds(n) ELSE NoCreds]
                        ELSE ticks[t]])

ResetClobClientOp ==
    /\ factory # ResetClobClient(factory)
    /\ UNCHANGED tickCount
    /\ CredsStep(ResetClobClient(factory), ticks)

NextCreds ==
    \/ \E t \in Ticks :
          \/ CallGetApiCredentials(t)
          \/ CallCreateClobClient(t)
    \/ DerivationReturns
    \/ ResetClobClientOp

SpecCreds == InitCreds /\ [][NextCreds]_vars

(***************************************************************************)
(* PROPERTIES                                                              *)
(***************************************************************************)
RECURSIVE SignedSum(_)
SignedSum(fills) ==
    IF fills = << >> THEN 0
    ELSE LET f == Head(fills) IN
         (IF f.side = "SELL" THEN f.price * f.size ELSE 0 - f.price * f.size)
         + SignedSum(Tail(fills))

IsRoundTrip(fills) ==
    /\ Len(fills) = 2
    /\ fills[1].side = "BUY" /\ fills[2].side = "SELL"
    /\ fills[1].size = fills[2].size

\* C1: after any sequence of gateway operations the paper cash equals the
\* initial bankroll plus the proceeds of all SELL fills minus the cost of all
\* BUY fills, each at its fill price; in particular a BUY at p followed by a
\* SELL at q of the same size leaves BANKROLL + (q - p) * size.
C1_CashAccounting ==
    /\ gateway.cash = BANKROLL + SignedSum(gateway.fills)
    /\ IsRoundTrip(gateway.fills) =>
          gateway.cash = BANKROLL + (gateway.fills[2].price - gateway.fills[1].price)
                                    * gateway.fills[1].size

\* a BUY then a SELL of the same size at a different price have filled
C1_Witness ==
    /\ IsRoundTrip(gateway.fills)
    /\ gateway.fills[1].price # gateway.fills[2].price


LedgerIds(s) == {s.tradeRecords[i] : i \in 1..Len(s.tradeRecords)}

FilledBuyIds(s) ==
    {id \in LedgerIds(s) : Rec(s, id).side = "BUY" /\ Rec(s, id).status = "FILLED"}

\* a step that adds a FILLED BUY record to the ledger
NewFilledBuy == FilledBuyIds(strategy') \ FilledBuyIds(strategy) # {}

\* C2: while the session is locked no FILLED BUY record is added, whatever
\* the interleaving of ticks: an entry that passed shouldEnterTrade does
\* not execute once the session has become locked.
C2_NoEntryWhileSessionLocked ==
    [][strategy.sessionState.isSessionLocked => ~NewFilledBuy]_vars

\* a step of the breaker from engaged to released within a session
BreakerReleased ==
    /\ strategy.circuitBreaker.isCoolingDown
    /\ ~strategy'.circuitBreaker.isCoolingDown
    /\ strategy'.sessionNo = strategy.sessionNo

\* C3: while the circuit breaker is engaged no FILLED BUY record is added,
\* and within a session the breaker is released only when MIN_COOLDOWN_MS
\* have passed since the last stop-loss and the crashed token's bid was
\* above the crash low on the last STABILITY_TICKS_REQUIRED consecutive
\* observations.
C3_BreakerBlocksEntries ==
    [][/\ strategy.circuitBreaker.isCoolingDown => ~NewFilledBuy
       /\ BreakerReleased =>
             /\ now - strategy.circuitBreaker.lastStopLossTime >= MIN_COOLDOWN_MS
             /\ strategy'.aboveRun >= STABILITY_TICKS_REQUIRED]_vars

StopExits(s) ==
    {id \in LedgerIds(s) : /\ Rec(s, id).side = "SELL"
                           /\ Rec(s, id).status = "FILLED"
                           /\ Rec(s, id).exitType \in {"STOP_LOSS", "BREAKEVEN"}}

\* C4: once a stop-loss exit has filled, the BUY it is paired with is not an
\* active position, and every LIMIT SELL paired with that BUY is CANCELLED.
C4_StopLossExitClosesPair ==
    \A x \in StopExits(strategy) :
        /\ ~InSeq(Rec(strategy, x).pairedWith, strategy.activePositions)
        /\ \A y \in LedgerIds(strategy) :
              (/\ Rec(strategy, y).pairedWith = Rec(strategy, x).pairedWith
               /\ Rec(strategy, y).exitType = "LIMIT")
              => Rec(strategy, y).status = "CANCELLED"

\* C5: at most one executeTrade is between its acquisition of the trading
\* lock and its return, and there is never more than one active position.
C5_OneEntryInFlight ==
    /\ Cardinality({t \in Ticks : ticks[t].pc = "trade"}) <= 1
    /\ Len(strategy.activePositions) <= 1

\* C6: no two executions of the main tick overlap: at most one tick is
\* between its first read and its last write of strategy state.
C6_TicksDoNotOverlap ==
    Cardinality({t \in Ticks : ticks[t].pc # "idle"}) <= 1

\* C7: once the break-even trigger of an active position has fired, its stop
\* price is its entry price at every later observation, so that any later
\* bid with 0 < bid < entry triggers the exit.
C7_StopAtEntryAfterBreakeven ==
    \A i \in 1..Len(strategy.activePositions) :
        LET activePosition == Rec(strategy, strategy.activePositions[i]) IN
        activePosition.breakEvenTriggered =>
            \A q \in Quotes :
                /\ StopLossPrice(activePosition, q.bid) = activePosition.price
                /\ (q.bid > 0 /\ q.bid < activePosition.price)
                       => StopTriggers(activePosition, q.bid)

CandidateAsk(tk) == IF tk.spotAbove THEN tk.prices.upAsk ELSE tk.prices.downAsk

\* C8: shouldEnterTrade accepts only when the ask of the candidate token (UP
\* when spot > strike, else DOWN) is known and lies in [MIN_ENTRY_PRICE,
\* MAX_ENTRY_PRICE]; an ask of 0 is rejected; the boundary values are
\* accepted when the other gates pass.
C8_EntryOnlyInPriceZone ==
    ticks[1].pc = "checked" =>
        /\ ticks[1].direction # "null" =>
              /\ ticks[1].prices.ok
              /\ CandidateAsk(ticks[1]) >= MIN_ENTRY_PRICE
              /\ CandidateAsk(ticks[1]) <= MAX_ENTRY_PRICE
        /\ (/\ ticks[1].prices.ok
            /\ CandidateAsk(ticks[1]) \in {MIN_ENTRY_PRICE, MAX_ENTRY_PRICE}
            /\ ticks[1].timeRemaining > 150000)
           => ticks[1].direction # "null"

\* a step in which resetForNewMarket runs
RotationCompletes == strategy'.sessionNo = strategy.sessionNo + 1

C10_EmergencyExitSellsThePosition ==
    \A t \in Ticks :
        ticks[t].pc = "emergency" => ticks[t].exitToken = ticks[t].paperPosition.tokenId

\* a step in which tick t leaves the await of getActiveMarket with a market
\* in hand while the current market is within MARKET_ROTATION_THRESHOLD
\* seconds of its expiry and a market was seen before
DiscoveredWhileExpiring(t) ==
    /\ ticks[t].pc = "discover"
    /\ ticks'[t].pc # "discover"
    /\ ticks[t].found # 0
    /\ lastMarketSlug # 0
    /\ IsMarketExpiring(currentMarket, now, MARKET_ROTATION_THRESHOLD)

\* the rotation steps start (emergency exit, report) or run to the end
RotationRuns(t) == RotationCompletes \/ ticks'[t].pc \in {"emergency", "saving"}

Crosses(order, currentBestAsk, currentBestBid) ==
    IF order.side = "BUY" THEN currentBestAsk > 0 /\ currentBestAsk <= order.price
    ELSE currentBestBid > 0 /\ currentBestBid >= order.price

\* the price a crossing resting order fills at
FillPriceOf(order, currentBestAsk, currentBestBid) ==
    IF order.side = "BUY" THEN Min(currentBestAsk, order.price)
    ELSE Max(currentBestBid, order.price)

\* the fills a step appended to the fill log
NewFills == SubSeq(gateway'.fills, Len(gateway.fills) + 1, Len(gateway'.fills))

\* C12: in one fill-check pass for a token, every resting order of that
\* token fills if and only if its side of the book is above 0 and crosses
\* the order's limit (ask <= limit for a BUY, bid >= limit for a SELL), and
\* it fills at min(ask, limit) or max(bid, limit); a side reported as 0
\* fills nothing.
C12_RestingOrderFillsIffCrossed ==
    [][\A i \in 1..Len(gateway.orders) :
          LET order == gateway.orders[i]
              ask == ticks[1].prices.upAsk
              bid == ticks[1].prices.upBid
          IN order.tokenId = ticks[1].exitToken =>
               /\ order.id \in gateway'.filled <=> Crosses(order, ask, bid)
               /\ order.id \in gateway'.filled =>
                     \E k \in 1..Len(NewFills) :
                         NewFills[k] = Fill(order.side, FillPriceOf(order, ask, bid),
                                            order.size)]_vars

\* the arguments a placeFOKOrder call is given: dollars for a BUY, shares
\* for a SELL, and a price that may be missing (0)
FOKCalls ==
    {[tokenId |-> tokenId, side |-> side, price |-> price,
      amount |-> IF side = "BUY"
                 THEN (IF price = 0 THEN DEFAULT_FOK_PRICE ELSE price) * size
                 ELSE size] :
        tokenId \in GatewayTokens, side \in Sides, price \in GatewayPrices \cup {0},
        size \in GatewaySizes}

\* what executePaperFAK requires of the gateway to execute the call
Covered(g, call) ==
    LET p == IF call.price = 0 THEN DEFAULT_FOK_PRICE ELSE call.price
        i == PosIndex(g, call.tokenId)
    IN IF call.side = "BUY" THEN g.cash >= p * (call.amount \div p)
       ELSE i > 0 /\ g.positions[i].shares >= call.amount

\* C13: a FOK order that cannot be covered (a BUY whose cost exceeds the
\* cash, a SELL of more shares than the position holds, or of a token with
\* no position) reports failure and leaves cash, positions, open orders,
\* the filled set and the order-id counter as they were.
C13_UncoveredFOKChangesNothing ==
    \A call \in FOKCalls :
        LET r == PlaceFOKOrder(gateway, call.tokenId, call.side, call.amount, call.price)
        IN ~Covered(gateway, call) =>
              /\ ~r.ok
              /\ r.g.cash = gateway.cash
              /\ r.g.positions = gateway.positions
              /\ r.g.orders = gateway.orders
              /\ r.g.filled = gateway.filled
              /\ r.g.counter = gateway.counter

\* a gateway that has traded and holds a position smaller than a SELL asks
\* for, and less cash than a BUY costs: both calls are refused
C13_Witness ==
    /\ HasPaperPosition(gateway)
    /\ gateway.cash < BANKROLL
    /\ \E call \in FOKCalls :
          /\ call.side = "SELL"
          /\ call.tokenId = GetPaperPosition(gateway).tokenId
          /\ GetPaperPosition(gateway).shares < call.amount
          /\ ~PlaceFOKOrder(gateway, call.tokenId, "SELL", call.amount, call.price).ok
    /\ \E call \in FOKCalls :
          /\ call.side = "BUY"
          /\ ~Covered(gateway, call)
          /\ ~PlaceFOKOrder(gateway, call.tokenId, "BUY", call.amount, call.price).ok

\* C14: for every gateway state and every book, a second fill-check pass
\* for the same token with the same best ask and best bid leaves cash and
\* positions as the first pass left them.
C14_FillCheckIdempotent ==
    [][ticks[1].pc = "filled once" =>
          /\ gateway'.cash = gateway.cash
          /\ gateway'.positions = gateway.positions]_vars

\* the ids of the open orders
OpenIds(g) == {g.orders[i].id : i \in 1..Len(g.orders)}

\* every id in use was drawn from the counter, open ids are distinct, only
\* resting (PAPER) ids are open, and no open id is in the filled set
IdsInOrder(g) ==
    /\ \A id \in OpenIds(g) \cup g.filled : id.n < g.counter
    /\ Cardinality(OpenIds(g)) = Len(g.orders)
    /\ \A id \in OpenIds(g) : id.kind = "PAPER" /\ id \notin g.filled

\* what one gateway operation may do with ids: a new open id is fresh; an
\* id enters the filled set either from the open set, which it leaves, or
\* as the fresh id of a FOK order; and with it exactly one fill is made
FillsOnce(g, h) ==
    /\ h.counter >= g.counter
    /\ \A id \in OpenIds(h) \ OpenIds(g) : id.n >= g.counter
    /\ \A id \in h.filled \ g.filled :
          /\ \/ id \in OpenIds(g) /\ id \notin OpenIds(h)
             \/ id.kind = "PAPER_FOK" /\ id.n = g.counter
          /\ h.filled \ g.filled = {id}
          /\ Len(h.fills) = Len(g.fills) + 1

\* C15: no order id is filled more than once, so each id changes cash and
\* positions at most once: ids are never reused, an id is filled only on
\* leaving the open set or as a new FOK id, and a filled id is never open
\* again.  A FOK id is never in the open-order set, and no id is in both the
\* open and the filled set.
C15_EachOrderFillsOnce == [](IdsInOrder(gateway)) /\ [][FillsOnce(gateway, gateway')]_vars

\* a resting order was filled by a fill-check pass and left the open set,
\* and the gateway made a second fill afterwards or before
C15_Witness ==
    /\ \E id \in gateway.filled : id.kind = "PAPER"
    /\ gateway.orders = << >>
    /\ Len(gateway.fills) = MaxFills

\* C16: every entry of the position map holds more than 0 shares (and a
\* token has at most one entry), so a token whose shares reach zero by a
\* SELL is no longer in the map.
C16_PositionsHoldShares ==
    /\ \A i \in 1..Len(gateway.positions) : gateway.positions[i].shares > 0
    /\ \A i, j \in 1..Len(gateway.positions) :
          gateway.positions[i].tokenId = gateway.positions[j].tokenId => i = j

\* a BUY made a position and a SELL of as many shares emptied the map
C16_Witness ==
    /\ Len(gateway.fills) = 2
    /\ gateway.fills[1].side = "BUY"
    /\ gateway.fills[2].side = "SELL"
    /\ gateway.fills[2].size = gateway.fills[1].size
    /\ gateway.positions = << >>

\* C17: a session whose P&L is at or above SESSION_PROFIT_TARGET is locked
\* with reason PROFIT_TARGET, and one whose P&L is at or below
\* -SESSION_LOSS_LIMIT is locked with reason LOSS_LIMIT; a locked session
\* stays locked and no entry check accepts until the strategy is reset for a
\* new market, and the reset sets the session P&L to 0 and unlocks.
C17_SessionLockUntilRotation ==
    /\ [](LET st == strategy.sessionState
          IN /\ st.sessionPnL >= SESSION_PROFIT_TARGET =>
                   st.isSessionLocked /\ st.lockReason = "PROFIT_TARGET"
             /\ st.sessionPnL <= 0 - SESSION_LOSS_LIMIT =>
                   st.isSessionLocked /\ st.lockReason = "LOSS_LIMIT")
    /\ [][IF RotationCompletes
          THEN /\ strategy'.sessionState.sessionPnL = 0
               /\ ~strategy'.sessionState.isSessionLocked
          ELSE strategy.sessionState.isSessionLocked =>
                 /\ strategy'.sessionState.isSessionLocked
                 /\ ticks'[1].pc # "accepted"]_vars

\* the second session is locked on its profit after the first was locked
\* on its loss and reset, and an entry check has just been rejected
C17_Witness ==
    /\ strategy.sessionNo = 1
    /\ strategy.sessionState.isSessionLocked
    /\ strategy.sessionState.lockReason = "PROFIT_TARGET"
    /\ strategy.sessionState.sessionPnL >= SESSION_PROFIT_TARGET
    /\ ticks[1].pc = "rejected"

\* tick t leaves updateOrderStatus in this step and makes its entry decision
EntryDecision(t) ==
    /\ ticks[t].pc \in {"prices", "cb", "pos"}
    /\ ticks'[t].pc \in {"idle", "trade"}

\* the SELL records of the ledger whose order the gateway has filled
FilledSellOrders(s, g) ==
    {id \in LedgerIds(s) : Rec(s, id).side = "SELL" /\ IsOrderFilled(g, Rec(s, id).orderId)}

\* C18: in every tick the fill check on the tick's book comes before
\* updateOrderStatus and updateOrderStatus before the entry decision, so
\* when a tick decides on an entry every SELL the gateway has filled is
\* FILLED in the ledger and the BUY it closes is not an active position.
C18_FillsSettledBeforeEntryDecision ==
    [][\A t \in Ticks :
          EntryDecision(t) =>
             \A id \in FilledSellOrders(strategy', gateway') :
                 /\ Rec(strategy', id).status = "FILLED"
                 /\ ~InSeq(Rec(strategy', id).pairedWith, strategy'.activePositions)]_vars

\* the LIMIT SELL records the stop-loss branch has cancelled (the
\* hold-to-maturity cancel changes the exit type)
CancelledLimitSells(s) ==
    {id \in LedgerIds(s) : /\ Rec(s, id).side = "SELL"
                           /\ Rec(s, id).status = "CANCELLED"
                           /\ Rec(s, id).exitType = "LIMIT"}

\* executeFAK refuses the stop-loss SELL of BUY record buy: the gateway
\* holds no position of the token, or fewer shares than the record
StopLossRefused(g, buy) ==
    LET i == PosIndex(g, buy.tokenId)
    IN i = 0 \/ g.positions[i].shares < buy.size

TickReturns(t) ==
    \/ ticks[t].pc # "idle" /\ ticks'[t].pc = "idle"
    \/ tickCount' = tickCount + 1 /\ ticks' = ticks

\* C20: while a position is active the stop-loss check is made in every
\* period, whatever the main tick does: no tick ends, with a position active
\* before and after, unless it has gone through the position check of
\* updateOrderStatus; a tick that returns early does not skip the check.
C20_StopLossCheckedEveryTick ==
    [][\A t \in Ticks :
          (/\ TickReturns(t)
           /\ Len(strategy.activePositions) > 0
           /\ Len(strategy'.activePositions) > 0) => ticks[t].pc \in {"pos", "trade"}]_vars

\* the TradeRecord objects alive before and after a step
SurvivingRecords == DOMAIN strategy.obj \cap DOMAIN strategy'.obj

\* C21: a trade record's status only moves from PENDING to FILLED or from
\* PENDING to CANCELLED; a record that is FILLED or CANCELLED never changes
\* status afterwards, however the executions of updateOrderStatus overlap.
C21_StatusMovesOnlyFromPending ==
    [][\A id \in SurvivingRecords :
          Rec(strategy', id).status # Rec(strategy, id).status =>
             /\ Rec(strategy, id).status = "PENDING"
             /\ Rec(strategy', id).status \in {"FILLED", "CANCELLED"}]_vars

\* tick t is between its strike check and its end: it fetches prices,
\* updates the orders, evaluates an entry or executes one
PastStrikeCheck(t) == ticks[t].pc \in {"prices", "cb", "pos", "trade"}

\* C22: no entry is evaluated or executed on a tick where the market's
\* strike is unavailable (<= 0) and no positive operator override is
\* configured: such a tick never gets past the strike check.
C22_NoEntryWithoutStrike ==
    \A t \in Ticks :
        PastStrikeCheck(t) => (ticks[t].marketInfo.strikeOk \/ MANUAL_STRIKE_PRICE > 0)

\* a tick found the spot price, then no strike for the current market, and
\* returned; nothing was traded
C22_Witness ==
    /\ currentMarket.slug # 0
    /\ ~currentMarket.strikeOk
    /\ "none" \notin env.spots
    /\ \A t \in Ticks : ticks[t].pc = "idle"
    /\ tickCount >= 2
    /\ strategy.tradeRecords = << >>

\* tick t comes back from executeTrade in this step
TradeReturns(t) == ticks[t].pc = "trade" /\ ticks'[t].pc = "idle"

\* C23: a tick on which a datum is missing (no spot price, no strike, or
\* the order books of the market's tokens empty or not fetched) is skipped
\* and creates no BUY: every FILLED BUY record is added by a tick that has
\* its spot price, its strike and the prices of both tokens.
C23_NoBuyOnMissingDatum ==
    [][NewFilledBuy =>
          \E t \in Ticks : /\ TradeReturns(t)
                           /\ ticks[t].marketInfo.strikeOk \/ MANUAL_STRIKE_PRICE > 0
                           /\ ticks[t].prices.ok]_vars

\* the FILLED SELL records paired with BUY record buyId
FilledSellsOf(s, buyId) ==
    {id \in LedgerIds(s) : /\ Rec(s, id).side = "SELL"
                           /\ Rec(s, id).status = "FILLED"
                           /\ Rec(s, id).pairedWith = buyId}

\* C24: at any time the naked-position count getStats reports equals the
\* number of FILLED BUY records for which no FILLED SELL record has
\* pairedWith equal to the BUY's id; a PENDING or CANCELLED SELL does not
\* close a BUY.
C24_NakedPositionCount ==
    GetStatsNakedPositions(strategy)
        = Cardinality({b \in FilledBuyIds(strategy) : FilledSellsOf(strategy, b) = {}})

\* the ledger holds a BUY closed by a FILLED SELL and a BUY whose only SELL
\* is CANCELLED or PENDING, which is the one getStats reports naked
C24_Witness ==
    /\ \E b \in FilledBuyIds(strategy) : FilledSellsOf(strategy, b) # {}
    /\ \E b \in FilledBuyIds(strategy) :
          /\ FilledSellsOf(strategy, b) = {}
          /\ \E id \in LedgerIds(strategy) : /\ Rec(strategy, id).pairedWith = b
                                             /\ Rec(strategy, id).status # "FILLED"
    /\ GetStatsNakedPositions(strategy) = 1

\* caller t arrives in this step: it calls getApiCredentials, directly or
\* through a client creation that createClobClient starts
Arrives(t) ==
    /\ ticks[t].pc = "idle"
    /\ tickCount' = tickCount + 1
    /\ ticks'[t] # ticks[t] \/ factory' # factory
    /\ \A u \in Ticks \ {t} : ticks'[u] = ticks[u]

\* C25: at most one API-credential derivation is in flight at any instant;
\* a caller that arrives while a derivation is in flight starts no
\* derivation and, when it has to wait, waits for that same derivation, whose
\* result it receives; and while derived credentials are cached no
\* derivation is started.
C25_OneDerivationInFlight ==
    /\ [](Cardinality(factory.inFlight) <= 1)
    /\ [][/\ \A t \in Ticks, n \in factory.inFlight :
                Arrives(t) =>
                   /\ factory'.derivations = factory.derivations
                   /\ factory'.inFlight = {n}
                   /\ ticks'[t].pc = "creds" => ticks'[t].on = n
          /\ \A t \in Ticks, n \in factory.inFlight \ factory'.inFlight :
                (ticks[t].pc = "creds" /\ ticks[t].on = n) =>
                   /\ ticks'[t].pc = "idle"
                   /\ ticks'[t].ok => ticks'[t].creds = factory'.cachedApiCreds
          /\ factory.cachedApiCreds # NoCreds =>
                factory'.derivations = factory.derivations]_vars

\* two callers wait for the one derivation in flight: the second arrived
\* while it was in flight
C25_Witness ==
    /\ factory.inFlight = {1}
    /\ factory.derivations = 1
    /\ \A t \in Ticks : ticks[t].pc = "creds" /\ ticks[t].on = 1

\* tick t runs to its end in this step (it does not return early)
TickCompletes(t) ==
    /\ ticks[t].pc \in {"prices", "cb", "pos", "trade"}
    /\ ticks'[t].pc = "idle"

\* the ledger of s agrees with gateway g
LedgerAgrees(s, g) ==
    /\ \A id \in FilledSellOrders(s, g) :
          /\ Rec(s, id).status = "FILLED"
          /\ ~InSeq(Rec(s, id).pairedWith, s.activePositions)
    /\ \A i \in 1..Len(s.activePositions) :
          PosIndex(g, Rec(s, s.activePositions[i]).tokenId) > 0

\* C26: after every completed main tick the strategy ledger agrees with the
\* gateway: a SELL order whose id is in the gateway's filled set is recorded
\* FILLED (never CANCELLED) in the ledger, its paired BUY is not active, and
\* a BUY is active only if the gateway still holds a position for its token,
\* also when the book changes between the tick's fill check and the book
\* fetched inside updateOrderStatus.
C26_LedgerAgreesWithGateway ==
    [][\A t \in Ticks : TickCompletes(t) => LedgerAgrees(strategy', gateway')]_vars

\* the order books an observation of a position can show: those of Books,
\* a book with no bids, and a book whose bid is within 0.02 of zero
ObservedBooks == Quotes \cup {Quote(700, 0), Quote(40, 25)}

\* the distance the position carries at an observation with bid currentBid:
\* 0 once the break-even trigger has fired, else its fixedStopDist
StoredStopDist(activePosition, currentBid) ==
    IF BreakEvenArms(activePosition, currentBid) THEN 0 ELSE activePosition.fixedStopDist

\* the gateway holds the shares of the position
HeldAtGateway(g, activePosition) ==
    /\ PosIndex(g, activePosition.tokenId) > 0
    /\ g.positions[PosIndex(g, activePosition.tokenId)].shares >= activePosition.size

\* the stop exits of position id that s1 records and s does not
NewStopExits(s, s1, id) ==
    {x \in LedgerIds(s1) \ LedgerIds(s) : /\ Rec(s1, x).pairedWith = id
                                          /\ Rec(s1, x).exitType \in {"STOP_LOSS", "BREAKEVEN"}}

\* C27: for an active position, an observation triggers a stop-loss exit iff
\* 0 < best bid < entry - stop distance; the exit is a FAK SELL of the
\* position's full size at max(0.01, best bid - 0.02); an observed best bid
\* of 0 never triggers an exit.
C27_StopLossTrigger ==
    \A i \in 1..Len(strategy.activePositions) :
        LET id == strategy.activePositions[i]
            activePosition == Rec(strategy, id)
        IN HeldAtGateway(gateway, activePosition) =>
              \A q \in ObservedBooks :
                  LET r == ProcessPosition(strategy, gateway, now, id, WINDOW_MS, q)
                      exits == NewStopExits(strategy, r.s, id)
                      exitPrice == Max(10, q.bid - 20)
                  IN /\ (exits # {}) <=>
                            (/\ q.bid > 0
                             /\ q.bid < activePosition.price
                                          - StoredStopDist(activePosition, q.bid))
                     /\ \A x \in exits :
                           /\ Rec(r.s, x).side = "SELL"
                           /\ Rec(r.s, x).status = "FILLED"
                           /\ Rec(r.s, x).price = exitPrice
                           /\ Rec(r.s, x).size = activePosition.size
                           /\ r.g.cash = gateway.cash + exitPrice * activePosition.size
                     /\ q.bid = 0 => exits = {}


\* the profit of the FILLED SELL records among the first n of tradeRecords:
\* (sell price - paired BUY price) * size each
RECURSIVE RealizedUpTo(_, _)
RealizedUpTo(s, n) ==
    IF n = 0 THEN 0
    ELSE LET record == Rec(s, s.tradeRecords[n]) IN
         RealizedUpTo(s, n - 1)
           + (IF record.side = "SELL" /\ record.status = "FILLED"
              THEN (record.price - Rec(s, record.pairedWith).price) * record.size
              ELSE 0)

FilledSellIds(s) ==
    {id \in LedgerIds(s) : Rec(s, id).side = "SELL" /\ Rec(s, id).status = "FILLED"}

\* C28: session P&L is updated exactly once per SELL fill: at all times
\* within a session, session P&L equals the sum over the FILLED SELL records
\* of (sell price - paired BUY price) * size and the session trade count
\* equals the number of those records, for every interleaving of
\* overlapping updateOrderStatus executions.
C28_SessionPnLOncePerFill ==
    /\ strategy.sessionState.sessionPnL = RealizedUpTo(strategy, Len(strategy.tradeRecords))
    /\ strategy.sessionState.tradesThisSession = Cardinality(FilledSellIds(strategy))


\* C29: every FILLED BUY record created by executeTrade has a price within
\* [MIN_ENTRY_PRICE, MAX_ENTRY_PRICE], for every change of the book between
\* the tick's book fetch and the book that executeTrade fetches itself, and
\* also on a tick whose own book fetch failed.
C29_BuyPriceInEntryZone ==
    \A id \in FilledBuyIds(strategy) :
        /\ Rec(strategy, id).price >= MIN_ENTRY_PRICE
        /\ Rec(strategy, id).price <= MAX_ENTRY_PRICE


\* the time remaining that a tick can pass to updateOrderStatus: inside the
\* last 45 s, exactly 45 s, and early in the window
HoldTimes == {25000, 45000, 600000}

\* the records of s1 that are marked HOLD_TO_MATURITY and are not in s
NewHolds(s, s1) ==
    {x \in LedgerIds(s1) : /\ Rec(s1, x).exitType = "HOLD_TO_MATURITY"
                           /\ Rec(s, x).exitType # "HOLD_TO_MATURITY"}

HoldRecords(s) == {x \in LedgerIds(s) : Rec(s, x).exitType = "HOLD_TO_MATURITY"}

\* C30: updateOrderStatus cancels the paired SELL and marks it CANCELLED
\* with exit type HOLD_TO_MATURITY iff the remaining seconds are < 45, the
\* best bid is > 0.94 and the paired SELL is still PENDING; afterwards the
\* BUY stays active and no further position is opened for the rest of that
\* market window.  (The BUY stays active: the cancellation leaves it in
\* activePositions.  It is still subject to the stop-loss of later
\* observations and to the emergency exit of the rotation.)
C30_HoldToMaturity ==
    /\ [](\A i \in 1..Len(strategy.activePositions) :
            \A q \in HoldQuotes, timeRemainingSeconds \in HoldTimes :
               LET id == strategy.activePositions[i]
                   pendingSell == PendingSellOf(strategy, id)
                   r == ProcessPosition(strategy, gateway, now, id, timeRemainingSeconds, q)
                   held == NewHolds(strategy, r.s)
               IN /\ (held # {}) <=> (/\ timeRemainingSeconds < 45 * 1000
                                      /\ q.bid > 940
                                      /\ pendingSell # NoId)
                  /\ \A x \in held :
                        /\ x = pendingSell
                        /\ Rec(r.s, x).status = "CANCELLED"
                        /\ OrderIndex(r.g, Rec(r.s, x).orderId) = 0
                        /\ InSeq(id, r.s.activePositions))
    /\ [][/\ \A x \in NewHolds(strategy, strategy') :
                /\ \E t \in Ticks : ticks[t].pc = "pos" /\ ticks[t].timeRemaining < 45 * 1000
                /\ InSeq(Rec(strategy', x).pairedWith, strategy'.activePositions)
          /\ NewFilledBuy => HoldRecords(strategy) = {}]_vars

\* a SELL was cancelled to hold its BUY to maturity, the BUY is active and
\* the trading lock is released
C30_Witness ==
    \E x \in HoldRecords(strategy) :
        /\ Rec(strategy, x).status = "CANCELLED"
        /\ InSeq(Rec(strategy, x).pairedWith, strategy.activePositions)
        /\ ~strategy.isTradingLocked
        /\ \A t \in Ticks : ticks[t].pc = "idle"


\* getStats, the realizedPNL it reports: for each FILLED BUY the first
\* FILLED SELL paired with it, proceeds minus cost
FirstFilledSellOf(s, buyId) ==
    FirstIndex({k \in 1..Len(Ledger(s)) : /\ Ledger(s)[k].side = "SELL"
                                          /\ Ledger(s)[k].pairedWith = buyId
                                          /\ Ledger(s)[k].status = "FILLED"})

RECURSIVE GetStatsRealizedUpTo(_, _)
GetStatsRealizedUpTo(s, n) ==
    IF n = 0 THEN 0
    ELSE LET buy == Ledger(s)[n]
             k == FirstFilledSellOf(s, buy.id)
         IN GetStatsRealizedUpTo(s, n - 1)
              + (IF buy.side = "BUY" /\ buy.status = "FILLED" /\ k > 0
                 THEN Ledger(s)[k].price * Ledger(s)[k].size - buy.price * buy.size
                 ELSE 0)

GetStatsRealizedPNL(s) == GetStatsRealizedUpTo(s, Len(s.tradeRecords))

\* C31: whenever the gateway holds no position and no open order, paper
\* cash minus the paper cash at the start of the session equals the
\* strategy's session P&L and the realized P&L reported by getStats for
\* that session (here the first session, which starts with BANKROLL),
\* including when a resting SELL filled at a best bid above its limit.
\* The states compared are those with no tick in flight.
C31_CashMatchesSessionPnL ==
    (/\ strategy.sessionNo = 0
     /\ \A t \in Ticks : ticks[t].pc = "idle"
     /\ Len(gateway.positions) = 0
     /\ Len(gateway.orders) = 0)
    => /\ gateway.cash - BANKROLL = strategy.sessionState.sessionPnL
       /\ gateway.cash - BANKROLL = GetStatsRealizedPNL(strategy)


\* C32: within a session two FILLED BUY records are never created less than
\* MIN_TRADE_INTERVAL_MS apart: executeTrade records a BUY only when no BUY
\* was recorded in the session, or the last one at least 5000 ms before.
C32_BuysApart ==
    [][NewFilledBuy =>
          \/ strategy.circuitBreaker.lastTradeTime = 0
          \/ now - strategy.circuitBreaker.lastTradeTime >= MIN_TRADE_INTERVAL_MS]_vars


\* C33: the no-pending-trade gate of shouldEnterTrade rejects whenever there
\* is a non-empty set of active positions and also whenever paper cash is
\* below MIN_ORDER_SIZE: the gate holds in every such state, and an entry
\* check made in such a state does not go on to executeTrade.
C33_PendingGateRejects ==
    /\ []((Len(strategy.activePositions) > 0 \/ gateway.cash < MIN_ORDER_SIZE)
            => HasPendingTrades(strategy, gateway))
    /\ [][(/\ ticks[1].pc = "check"
           /\ Len(strategy.activePositions) > 0 \/ gateway.cash < MIN_ORDER_SIZE)
          => ticks'[1].pc # "trade"]_vars


\* the dollars of the last fill the gateway logged
LastFillAmount(g) == g.fills[Len(g.fills)].price * g.fills[Len(g.fills)].size

\* cash * TRADE_SIZE_PCT, raised to MIN_ORDER_SIZE when below it
TargetAmount(cash) ==
    IF cash \div TRADE_SIZE_DIVISOR < MIN_ORDER_SIZE THEN MIN_ORDER_SIZE
    ELSE cash \div TRADE_SIZE_DIVISOR

\* C34: every FOK BUY that executeTrade submits has an amount a with
\* MIN_ORDER_SIZE <= a <= cash, where the amount is cash * TRADE_SIZE_PCT
\* raised to MIN_ORDER_SIZE when below it (up to the rounding of the size to
\* 4 decimals); when cash < MIN_ORDER_SIZE, or when the amount after
\* rounding is below MIN_ORDER_SIZE, the entry is rejected and no order is
\* submitted.
C34_OrderAmountBounds ==
    [][ticks[1].pc = "trade" =>
          /\ Len(gateway'.fills) > Len(gateway.fills) =>
                /\ gateway'.fills[Len(gateway'.fills)].side = "BUY"
                /\ LastFillAmount(gateway') >= MIN_ORDER_SIZE
                /\ LastFillAmount(gateway') <= gateway.cash
                /\ 2 * (LastFillAmount(gateway') - TargetAmount(gateway.cash))
                      <= gateway'.fills[Len(gateway'.fills)].price
                /\ 2 * (TargetAmount(gateway.cash) - LastFillAmount(gateway'))
                      <= gateway'.fills[Len(gateway'.fills)].price
          /\ gateway.cash < MIN_ORDER_SIZE =>
                /\ gateway' = gateway
                /\ strategy'.tradeRecords = strategy.tradeRecords]_vars


\* the TradeRecords that s1 holds and s does not, in Map order
NewRecords(s, s1) == SelectSeq(Ledger(s1), LAMBDA r : r.id \notin LedgerIds(s))

\* C35: after a successful FOK BUY at price p < 0.99 and size s,
\* executeTrade rests exactly one GTC SELL at min(p + FIXED_PROFIT_TARGET,
\* 0.99) for the same size s and records it PENDING with pairedWith equal to
\* the BUY's id and exit type LIMIT; when the FOK BUY fails, the lock is
\* released and no record is written.
C35_PairedSellRested ==
    [][ticks[1].pc = "trade" =>
          IF Len(gateway'.fills) > Len(gateway.fills)
          THEN LET buy == gateway'.fills[Len(gateway'.fills)]
                   new == NewRecords(strategy, strategy')
                   rested == gateway'.orders[Len(gateway'.orders)]
               IN buy.price < 990 =>
                     /\ Len(gateway'.orders) = Len(gateway.orders) + 1
                     /\ rested.side = "SELL"
                     /\ rested.price = Min(buy.price + FIXED_PROFIT_TARGET, 990)
                     /\ rested.size = buy.size
                     /\ Len(new) = 2
                     /\ new[1].side = "BUY" /\ new[1].status = "FILLED"
                     /\ new[1].price = buy.price /\ new[1].size = buy.size
                     /\ new[2].side = "SELL" /\ new[2].status = "PENDING"
                     /\ new[2].pairedWith = new[1].id
                     /\ new[2].exitType = "LIMIT"
                     /\ new[2].orderId = rested.id
                     /\ new[2].price = rested.price /\ new[2].size = rested.size
          ELSE /\ ~strategy'.isTradingLocked
               /\ strategy'.tradeRecords = strategy.tradeRecords
               /\ gateway' = gateway]_vars

\* a BUY at 0.98 is paired with a SELL resting at the cap 0.99, and another
\* run's FOK BUY was refused for lack of cash
C35_Witness ==
    /\ Len(strategy.tradeRecords) = 2
    /\ Ledger(strategy)[1].price = 980
    /\ Ledger(strategy)[2].status = "PENDING"
    /\ Ledger(strategy)[2].price = 990
    /\ Len(gateway.orders) = 1


\* C36: in every state between strategy steps, activePositions holds
\* exactly the FILLED BUY records of tradeRecords that have no FILLED SELL
\* record paired with them.
C36_ActiveIndexIsOpenBuys ==
    (\A t \in Ticks : ticks[t].pc = "idle")
    => {strategy.activePositions[i] : i \in 1..Len(strategy.activePositions)}
         = {id \in FilledBuyIds(strategy) : FilledSellsOf(strategy, id) = {}}


\* the shares the gateway holds of a token: 0 when paperPositions has no
\* entry for it
SharesOf(g, tokenId) ==
    IF PosIndex(g, tokenId) > 0 THEN g.positions[PosIndex(g, tokenId)].shares ELSE 0

\* C37: for each token, the gateway position's share count equals the total
\* size of BUY fills minus the total size of SELL fills for that token since
\* the last clear, the token being absent iff the difference is 0: every
\* fill moves the shares of exactly one token by its size, up for a BUY and
\* down for a SELL, a step without a fill moves no shares unless it clears
\* them all, and cash is credited only by a SELL fill of shares held.
C37_SharesFollowFills ==
    [][/\ \A tokenId \in GatewayTokens :
             PosIndex(gateway', tokenId) > 0 => SharesOf(gateway', tokenId) > 0
       /\ IF Len(gateway'.fills) > Len(gateway.fills)
          THEN LET fill == gateway'.fills[Len(gateway'.fills)]
                   delta == IF fill.side = "BUY" THEN fill.size ELSE 0 - fill.size
               IN \E tokenId \in GatewayTokens :
                     /\ SharesOf(gateway', tokenId) = SharesOf(gateway, tokenId) + delta
                     /\ \A other \in GatewayTokens \ {tokenId} :
                           SharesOf(gateway', other) = SharesOf(gateway, other)
          ELSE /\ gateway'.cash = gateway.cash
               /\ \/ \A tokenId \in GatewayTokens :
                        SharesOf(gateway', tokenId) = SharesOf(gateway, tokenId)
                  \/ \A tokenId \in GatewayTokens : SharesOf(gateway', tokenId) = 0]_vars


\* C38: paper cash is never negative after any sequence of gateway
\* operations: a BUY, resting or immediate, fills only if cash covers
\* fill price x size.
C38_CashNeverNegative == gateway.cash >= 0


(***************************************************************************)
(* SlugOracle.getActiveMarket on its own: one call, the venue's answers to *)
(* the four probes drawn from VenueAnswers, at an instant on a window      *)
(* boundary and at one inside a window.  Times are in milliseconds, slug   *)
(* timestamps in seconds.                                                  *)
(***************************************************************************)
interval == WINDOW_MS \div 1000

OracleNows == {2700000, 3000500}

\* where the venue puts a market's window relative to its slug timestamp:
\* ending at it, starting at it, or (eventStartTime absent, startDate being
\* the listing date) starting long before it
VenueWindows == {"endsAtSlug", "startsAtSlug", "listedEarlier"}

NoMarketData ==
    [found |-> FALSE, start |-> 0, end |-> 0, active |-> FALSE,
     acceptingOrders |-> FALSE, closed |-> FALSE, clobTokenIds |-> FALSE]

\* response.data[0] for the slug of timestamp ts
MarketData(ts, window, active, acceptingOrders, closed, clobTokenIds) ==
    [found |-> TRUE,
     start |-> CASE window = "endsAtSlug" -> (ts - interval) * 1000
                 [] window = "startsAtSlug" -> ts * 1000
                 [] OTHER -> 0,
     end |-> IF window = "endsAtSlug" THEN ts * 1000 ELSE (ts + interval) * 1000,
     active |-> active, acceptingOrders |-> acceptingOrders, closed |-> closed,
     clobTokenIds |-> clobTokenIds]

\* what GET /markets?slug=... can answer for one probe: nothing (an error,
\* a timeout or an empty list), or a market that is open with or without
\* its token ids, flagged closed while still active and accepting, or not
\* accepting orders
VenueAnswers(ts) ==
    {NoMarketData}
    \cup {MarketData(ts, w, TRUE, TRUE, FALSE, tok) : w \in VenueWindows, tok \in BOOLEAN}
    \cup {MarketData(ts, w, TRUE, TRUE, TRUE, TRUE) : w \in VenueWindows}
    \cup {MarketData(ts, w, TRUE, FALSE, FALSE, TRUE) : w \in VenueWindows}

\* slugsToTry: next, current, previous, previous - 1 boundary
SlugsToTry(nowMs) ==
    LET nowSec == nowMs \div 1000
        currentBoundary == (nowSec \div interval) * interval
        nextBoundary == currentBoundary + interval
        prevBoundary == currentBoundary - interval
    IN <<nextBoundary, currentBoundary, prevBoundary, prevBoundary - interval>>

\* a variant of the test that lets a market through at the instant it ends
IsActiveMarketMutEnd(market, nowMs) ==
    LET hasStarted == market.start <= nowMs
        hasntEnded == nowMs <= market.end
        isAccepting == market.active /\ market.acceptingOrders /\ ~market.closed
    IN market.found /\ hasStarted /\ hasntEnded /\ isAccepting

\* the test of the selection loop
IsActiveMarket(market, nowMs) ==
    LET hasStarted == market.start <= nowMs
        hasntEnded == nowMs < market.end
        isAccepting == market.active /\ market.acceptingOrders /\ ~market.closed
    IN market.found /\ hasStarted /\ hasntEnded /\ isAccepting

\* the selection loop and the token-id validation: the slug timestamp of
\* the MarketConfig returned, 0 for null
SelectActiveMarket(marketResults, nowMs) ==
    LET hits == {i \in 1..Len(marketResults) : IsActiveMarket(marketResults[i], nowMs)}
    IN IF hits = {} THEN 0
       ELSE LET first == FirstIndex(hits) IN
            IF ~marketResults[first].clobTokenIds THEN 0
            ELSE SlugsToTry(nowMs)[first]

OracleCalled == [pc |-> "probing", marketResults |-> << >>, returned |-> 0]

InitOracle ==
    /\ gateway = InitGateway
    /\ strategy = InitStrategy
    /\ currentMarket = NoMarket
    /\ sessionLogger = [isActive |-> FALSE, ticks |-> 0]
    /\ lastMarketSlug = 0
    /\ tickCount = 0
    /\ factory = InitFactory
    /\ now \in OracleNows
    /\ \E a1 \in VenueAnswers(SlugsToTry(now)[1]), a2 \in VenueAnswers(SlugsToTry(now)[2]),
          a3 \in VenueAnswers(SlugsToTry(now)[3]), a4 \in VenueAnswers(SlugsToTry(now)[4]) :
          env = [venue |-> <<a1, a2, a3, a4>>]
    /\ ticks = OracleCalled

\* Promise.all resolves: every probe has answered or failed, the results
\* are in probe order
ProbesResolve ==
    /\ ticks.pc = "probing"
    /\ ticks' = [ticks EXCEPT !.pc = "select", !.marketResults = env.venue]
    /\ UNCHANGED <<gateway, strategy, currentMarket, sessionLogger, lastMarketSlug,
                   tickCount, now, env, factory>>

\* the rest of getActiveMarket; the strike price does not decide what is
\* returned
GetActiveMarketReturns ==
    /\ ticks.pc = "select"
    /\ ticks' = [ticks EXCEPT !.pc = "done",
                              !.returned = SelectActiveMarket(ticks.marketResults, now)]
    /\ UNCHANGED <<gateway, strategy, currentMarket, sessionLogger, lastMarketSlug,
                   tickCount, now, env, factory>>

NextOracle == ProbesResolve \/ GetActiveMarketReturns

SpecOracle == InitOracle /\ [][NextOracle]_vars


\* the candidate qualifies in the claim's words: start <= now < end and
\* the venue reports it as active and accepting orders
Qualifies(market, nowMs) ==
    /\ market.found
    /\ market.start <= nowMs /\ nowMs < market.end
    /\ market.active /\ market.acceptingOrders

\* C39: market discovery probes the candidate windows in the order next,
\* current, previous, previous - 1 boundary and returns the first candidate
\* in that order with start <= now < end that the venue reports as active
\* and accepting orders; it returns no market when no candidate qualifies.
C39_FirstQualifyingCandidate ==
    ticks.pc = "done" =>
        LET hits == {i \in 1..4 : Qualifies(env.venue[i], now)}
            nowSec == now \div 1000
            currentBoundary == (nowSec \div interval) * interval
            probes == <<currentBoundary + interval, currentBoundary,
                        currentBoundary - interval, currentBoundary - 2 * interval>>
        IN ticks.returned = IF hits = {} THEN 0 ELSE probes[FirstIndex(hits)]

\* C39, amended: a candidate that the venue flags closed does not qualify,
\* and when the first qualifying candidate carries no token ids discovery
\* returns no market instead of trying the candidates after it.
C39_FirstOpenCandidateWithTokens ==
    ticks.pc = "done" =>
        LET hits == {i \in 1..4 : Qualifies(env.venue[i], now) /\ ~env.venue[i].closed}
            nowSec == now \div 1000
            currentBoundary == (nowSec \div interval) * interval
            probes == <<currentBoundary + interval, currentBoundary,
                        currentBoundary - interval, currentBoundary - 2 * interval>>
        IN ticks.returned = IF hits = {} \/ ~env.venue[FirstIndex(hits)].clobTokenIds
                            THEN 0
                            ELSE probes[FirstIndex(hits)]

\* at a window boundary the current-boundary candidate is returned: the
\* next-boundary candidate, in its window since this instant, is flagged
\* closed
C39_Witness ==
    /\ ticks.pc = "done"
    /\ now = 2700000
    /\ ticks.returned = 2700
    /\ Qualifies(env.venue[1], now) /\ env.venue[1].start = now /\ env.venue[1].closed
    /\ env.venue[2].clobTokenIds


(***************************************************************************)
(* QuantEngine.calculateFairValue on its own.  Probabilities, z-scores and *)
(* minutes are fixed-point numbers in units of 1/FixedOne; spot and strike *)
(* are in dollars, the time remaining in milliseconds.                     *)
(***************************************************************************)
FixedOne == 10000

FixedMul(a, b) == (a * b) \div FixedOne

\* Math.sqrt of a fixed-point number
FixedSqrt(a) == CHOOSE r \in 0..40000 : r * r <= a * FixedOne /\ a * FixedOne < (r + 1) * (r + 1)

\* Math.exp(-x) for x >= 0: the series on x/16, squared four times
ExpNeg(x) ==
    IF x > 20 * FixedOne THEN 0
    ELSE LET y == x \div 16
             y2 == FixedMul(y, y)
             y3 == FixedMul(y2, y)
             y4 == FixedMul(y3, y)
             e1 == FixedOne - y + y2 \div 2 - y3 \div 6 + y4 \div 24
             e2 == FixedMul(e1, e1)
             e4 == FixedMul(e2, e2)
             e8 == FixedMul(e4, e4)
         IN FixedMul(e8, e8)

\* normalCDF: Abramowitz & Stegun 26.2.17
NormalCDF(z) ==
    LET p == 2316
        b1 == 3194
        b2 == 0 - 3566
        b3 == 17815
        b4 == 0 - 18213
        b5 == 13303
        absZ == IF z < 0 THEN 0 - z ELSE z
        t == (FixedOne * FixedOne) \div (FixedOne + FixedMul(p, absZ))
        poly == FixedMul(t, b1 + FixedMul(t, b2 + FixedMul(t, b3 + FixedMul(t, b4 + FixedMul(t, b5)))))
        halfSquare == IF absZ > 4 * FixedOne THEN 8 * FixedOne
                      ELSE FixedMul(absZ, absZ) \div 2
        density == FixedMul(3989, ExpNeg(halfSquare))
        t_poly == FixedOne - FixedMul(density, poly)
    IN IF z >= 0 THEN t_poly ELSE FixedOne - t_poly

\* a variant of calculateFairValue that settles only when the time
\* remaining is below zero
CalculateFairValueMutStrict(spotPrice, strikePrice, timeRemainingMs, volatility, direction) ==
    IF timeRemainingMs < 0
    THEN LET win == IF direction = "UP" THEN spotPrice > strikePrice
                    ELSE spotPrice < strikePrice
         IN IF win THEN FixedOne ELSE 0
    ELSE LET timeInMinutes == Max(FixedOne \div 100, timeRemainingMs \div 6)
             timeFactor == FixedSqrt(timeInMinutes)
             distance == IF direction = "UP" THEN spotPrice - strikePrice
                         ELSE strikePrice - spotPrice
             expectedMove == volatility * timeFactor
             zScore == ((distance * FixedOne * 100) \div expectedMove) * 100
         IN NormalCDF(zScore)

\* calculateFairValue
CalculateFairValue(spotPrice, strikePrice, timeRemainingMs, volatility, direction) ==
    IF timeRemainingMs <= 0
    THEN LET win == IF direction = "UP" THEN spotPrice > strikePrice
                    ELSE spotPrice < strikePrice
         IN IF win THEN FixedOne ELSE 0
    ELSE LET timeInMinutes == Max(FixedOne \div 100, timeRemainingMs \div 6)
             timeFactor == FixedSqrt(timeInMinutes)
             distance == IF direction = "UP" THEN spotPrice - strikePrice
                         ELSE strikePrice - spotPrice
             expectedMove == volatility * timeFactor
             zScore == ((distance * FixedOne * 100) \div expectedMove) * 100
         IN NormalCDF(zScore)

QuantStrike == 100000
QuantSpots == {99980, 99999, 100000, 100001, 100020}
QuantTimes == {0 - 1000, 0, 1, 15000, 60000, 600000}
QuantVolatilities == {5, 10}

InitQuant ==
    /\ gateway = InitGateway
    /\ strategy = InitStrategy
    /\ currentMarket = NoMarket
    /\ sessionLogger = [isActive |-> FALSE, ticks |-> 0]
    /\ lastMarketSlug = 0
    /\ tickCount = 0
    /\ factory = InitFactory
    /\ now = WINDOW_MS
    /\ \E spotPrice \in QuantSpots, timeRemainingMs \in QuantTimes,
          volatility \in QuantVolatilities, direction \in {"UP", "DOWN"} :
          env = [spotPrice |-> spotPrice, strikePrice |-> QuantStrike,
                 timeRemainingMs |-> timeRemainingMs, volatility |-> volatility,
                 direction |-> direction]
    /\ ticks = [pc |-> "call", fairValue |-> 0]

CalculateFairValueCall ==
    /\ ticks.pc = "call"
    /\ ticks' = [pc |-> "done",
                 fairValue |-> CalculateFairValue(env.spotPrice, env.strikePrice,
                                                  env.timeRemainingMs, env.volatility,
                                                  env.direction)]
    /\ UNCHANGED <<gateway, strategy, currentMarket, sessionLogger, lastMarketSlug,
                   tickCount, now, env, factory>>

SpecQuant == InitQuant /\ [][CalculateFairValueCall]_vars

\* C40: calculateFairValue with remaining time t <= 0 returns 1.0 iff the
\* direction is UP and spot > strike, or the direction is DOWN and
\* spot < strike, and 0.0 otherwise: the result at t <= 0 is always 0 or 1
\* and is 0.0 for both directions when spot = strike.
C40_FairValueAtExpiry ==
    (ticks.pc = "done" /\ env.timeRemainingMs <= 0) =>
        /\ ticks.fairValue = FixedOne
              <=> \/ env.direction = "UP" /\ env.spotPrice > env.strikePrice
                  \/ env.direction = "DOWN" /\ env.spotPrice < env.strikePrice
        /\ ticks.fairValue \in {0, FixedOne}
        /\ env.spotPrice = env.strikePrice => ticks.fairValue = 0

\* with no time left and the spot on the strike, DOWN is worth 0.0
C40_Witness ==
    /\ ticks.pc = "done"
    /\ env.timeRemainingMs = 0
    /\ env.spotPrice = env.strikePrice
    /\ env.direction = "DOWN"
    /\ ticks.fairValue = 0

====
